---- MODULE Spec2Model ----
(***************************************************************************)
(* Verification model of aldas/go-nmea-client: the NMEA 2000 fast-packet   *)
(* assembler, the CAN identifier codec, the Actisense byte-stuffed reader  *)
(* and the address mapper.                                                 *)
(***************************************************************************)
EXTENDS Integers, Naturals, Sequences, FiniteSets, TLC

VARIABLES
    \* ---- fast-packet assembler (package nmea) ----
    inTransfer,   \* FastPacketAssembler.inTransfer: sequence of fastPacketSequence
    pool,         \* FastPacketAssembler.pool: whether a sequence has been put back
    now,          \* wall clock in milliseconds (FastPacketAssembler.now, frame.Time)
    msg,          \* the RawMessage of the reader's latest Assemble call (`to`)
    ret,          \* the latest Assemble call: its return value and the frame it was given
    tx,           \* the bus: per sender, the fast-packet message it is transmitting
    \* ---- CAN identifier codec (canbus.go) ----
    canID,        \* the 29-bit identifier given to ParseCANID
    canHeader,    \* the CanBusHeader ParseCANID returned
    canOut,       \* the identifier CanBusHeader.Uint32 returned
    canPc,        \* "off", "id", "parsed", "encoded"
    \* ---- address mapper (package addressmapper) ----
    mutex,        \* AddressMapper.mutex: "free" or the goroutine that holds it
    writeEnabled, \* AddressMapper.writeEnabled
    isRunning,    \* AddressMapper.isRunning
    requestsChan, \* AddressMapper.requestsChan: the messages buffered in the channel
    knownNodes,   \* AddressMapper.knownNodes: NAME -> Node
    address2node, \* AddressMapper.address2node: source address -> busSlot or Nil
    callPc,       \* per calling goroutine: where it is in ToggleWrite, Process or Broadcast...
    runPc,        \* where the goroutine of Run is: "none", "loop", "deferred", "returned"
    enabled,      \* the local variable enabled of Run
    buffer,       \* the local queue of Run
    lastWrite,    \* the message Run gave to nmeaDevice.WriteRawMessage last
    cancelled,    \* whether the context given to Run is cancelled
    \* ---- Actisense binary reader (package actisense) ----
    stream,       \* the bytes the device has still to deliver
    rd,           \* the locals of the ReadRawMessage call in progress
    results,      \* what the ReadRawMessage calls have returned so far
    \* ---- the gateway calls that take a context (package actisense) ----
    wr,           \* the WriteRawMessage call: its locals and what it has done so far
    rc,           \* the ReadRawMessage call on a silent device: its clock and timeout
    ctxDone,      \* whether the context given to the call is cancelled
    \* ---- the caller of AddressMapper.Process ----
    processed,    \* the latest Process call: its message, what it found and returned
    \* ---- the write ticker of AddressMapper.Run ----
    timer,        \* writeTimer: whether it runs, whether a tick waits in its channel
    \* ---- calls of functions without state of their own ----
    calc,         \* the arguments of the call and, once it has returned, its result
    \* ---- SocketCAN device (package socketcan) ----
    sc,           \* the Device.ReadRawMessage call: its clock, its deadline, its result
    \* ---- the read loop of the command line tool (package main) ----
    cli,          \* the map throttled, and the messages read and emitted so far
    \* ---- Actisense ASCII line readers (package actisense) ----
    ascii         \* the device's input, the reader's buffer and indexes, its results

fpVars == <<inTransfer, pool, now, msg, ret, tx>>

canVars == <<canID, canHeader, canOut, canPc>>

mapperVars == <<mutex, writeEnabled, isRunning, requestsChan, knownNodes, address2node,
                callPc, runPc, enabled, buffer, lastWrite, cancelled>>

vars == <<inTransfer, pool, now, msg, ret, tx, canID, canHeader, canOut, canPc,
          mutex, writeEnabled, isRunning, requestsChan, knownNodes, address2node,
          callPc, runPc, enabled, buffer, lastWrite, cancelled,
          stream, rd, results, wr, rc, ctxDone, processed, timer, calc, sc, cli, ascii>>

readerVars == <<stream, rd, results>>

gatewayVars == <<wr, rc, ctxDone>>

extraVars == <<timer, calc, sc, cli, ascii>>

(***************************************************************************)
(* Bounds of the model                                                     *)
(***************************************************************************)
MaxLen == 13          \* longest fast-packet payload a sender transmits
MaxDeliveries == 3    \* frames the reader delivers of one message, duplicates included
MaxInFlight == 2      \* sequences the in-flight list holds in the model
ChanSize == 2         \* capacity of requestsChan in the model (addressMapperWriteChannelSize)
QueueSize == 2        \* capacity of the queue of Run in the model (newQueue(50))
MaxGarbage == 3       \* bytes the stream holds ahead of the well-formed frame
T0 == 1000            \* the wall clock when the assembler is constructed

(***************************************************************************)
(* Program constants                                                       *)
(***************************************************************************)
FastRawPacketMaxSize == 223
StaleMs == 750
FastPacketFloor == 126208     \* 0x01ed00, couldBeFastPacket
PGNISORequest == 59904
PGNISOAddressClaim == 60928
PGNProductInfo == 126996
PGNConfigurationInformation == 126998
ProductInfoSize == 134
PGNFast == 130323             \* a PGN of the configured fast-packet list
PGNNotListed == 129025        \* >= 0x01ed00 but not in the configured list
AddressGlobal == 255
AddressNull == 254
ISOTPDataMaxSize == 1785
STX == 2
ETX == 3
DLE == 16
cmdNGTMessageReceived == 147
cmdNGTMessageSend == 148
cmdRAWActisenseMessageReceived == 149
cmdRAWActisenseMessageSend == 150
cmdN2KMessageReceived == 208
cmdN2KMessageSend == 209
cmdDeviceMessageSend == 161

(***************************************************************************)
(* Integer helpers: fixed-width arithmetic and bit operations              *)
(***************************************************************************)
Pow2(n) == 2 ^ n

U8(x) == x % 256

\* a | b on unsigned integers
RECURSIVE BitOr(_, _)
BitOr(a, b) ==
    IF a = 0 THEN b
    ELSE IF b = 0 THEN a
    ELSE (IF a % 2 = 1 \/ b % 2 = 1 THEN 1 ELSE 0) + 2 * BitOr(a \div 2, b \div 2)

(***************************************************************************)
(* Records                                                                 *)
(***************************************************************************)
ZeroTime == 0

Header(pgn, prio, src, dst) ==
    [PGN |-> pgn, Priority |-> prio, Source |-> src, Destination |-> dst]

ZeroHeader == Header(0, 0, 0, 0)

\* A [223]byte array is the function of the indexes written so far; every
\* other index still holds the zero the array was created with.
ZeroData == <<>>

At(data, i) == IF i \in DOMAIN data THEN data[i] ELSE 0

\* The data of a sequence taken back from the pool: Reset keeps the bytes of
\* the message assembled in it before; StaleByte stands for every such byte.
StaleByte == 238

StaleData == [i \in 0..(FastRawPacketMaxSize - 1) |-> StaleByte]

\* &fastPacketSequence{}
NewSequence ==
    [header |-> ZeroHeader,
     lastReceivedFrameTime |-> ZeroTime,
     sequence |-> 0,
     length |-> 0,
     completeFramesMask |-> {},
     receivedFramesMask |-> {},
     receivedFramesCount |-> 0,
     data |-> ZeroData]

\* RawMessage{}: nil Data, so len = cap = 0
FreshMessage == [Time |-> ZeroTime, Header |-> ZeroHeader, Data |-> <<>>, cap |-> 0]

\* RawFrame{Time, Header, Length, Data [8]byte}; Data is 1-indexed here
RawFrame(t, h, length, data) == [Time |-> t, Header |-> h, Length |-> length, Data |-> data]

(***************************************************************************)
(* fastPacketSequence                                                      *)
(***************************************************************************)
\* frameCount of Append: uint8 arithmetic, frameCount += (m.length - 6 + 7) / 7
FrameCount(length) ==
    IF length > 6 THEN U8(1 + (U8(U8(length - 6) + 7) \div 7)) ELSE 1

\* A uint32 frame mask is the set of its one bits, each in 0..31.
\* ^(0xFFFFFFFF << frameCount) as uint32: a shift by 32 or more yields 0, so
\* the complement has all 32 bits
CompleteMask(frameCount) ==
    IF frameCount >= 32 THEN 0..31 ELSE 0..(frameCount - 1)

\* copy(m.data[start:start+n], src) where src is a sequence of n bytes
CopyInto(data, start, src) ==
    [i \in DOMAIN data \cup (start..(start + Len(src) - 1)) |->
        IF i >= start /\ i < start + Len(src) THEN src[i - start + 1] ELSE data[i]]

\* Append without the duplicate branch: a frame received before is taken
\* as a new one
FpAppendNoDup(m, f) ==
    LET sequence == f.Data[1] \div 32
        frameNr  == f.Data[1] % 32
        m1 == IF m.receivedFramesMask = {}
              THEN [m EXCEPT !.header = f.Header, !.sequence = sequence]
              ELSE m
        m2 == [m1 EXCEPT !.receivedFramesMask = m.receivedFramesMask \cup {frameNr},
                         !.receivedFramesCount = U8(m.receivedFramesCount + 1),
                         !.lastReceivedFrameTime = f.Time]
    IN  IF f.Length < 2 THEN [fp |-> m, done |-> FALSE]
        ELSE [fp |-> m2, done |-> m2.completeFramesMask = m2.receivedFramesMask]

\* fastPacketSequence.Append: the sequence after the call and the value returned
FpAppend(m, f) ==
    LET sequence == f.Data[1] \div 32
        frameNr  == f.Data[1] % 32
    IN  IF f.Length < 2 THEN [fp |-> m, done |-> FALSE]
        ELSE IF frameNr \in m.receivedFramesMask
        THEN [fp |-> m, done |-> m.completeFramesMask = m.receivedFramesMask]
        ELSE
          LET m1 == IF m.receivedFramesMask = {}
                    THEN [m EXCEPT !.header = f.Header, !.sequence = sequence]
                    ELSE m
              m2 == [m1 EXCEPT !.receivedFramesMask = m.receivedFramesMask \cup {frameNr},
                               !.receivedFramesCount = U8(m.receivedFramesCount + 1),
                               !.lastReceivedFrameTime = f.Time]
              m3 == IF frameNr = 0
                    THEN [m2 EXCEPT !.length = f.Data[2],
                                    !.completeFramesMask = CompleteMask(FrameCount(f.Data[2])),
                                    !.data = CopyInto(m2.data, 0, SubSeq(f.Data, 3, 8))]
                    ELSE [m2 EXCEPT !.data =
                                    CopyInto(m2.data, 6 + (frameNr - 1) * 7, SubSeq(f.Data, 2, 8))]
          IN  [fp |-> m3, done |-> m3.completeFramesMask = m3.receivedFramesMask]

\* fastPacketSequence.Reset: data is not reset
Reset(m) ==
    [m EXCEPT !.lastReceivedFrameTime = ZeroTime,
              !.header = ZeroHeader,
              !.sequence = 0,
              !.length = 0,
              !.completeFramesMask = {},
              !.receivedFramesMask = {},
              !.receivedFramesCount = 0]

\* copy(to.Data[:], src) after the capacity check: a Data that is large enough
\* keeps its length, only the first min(len, n) bytes are overwritten
CopyOut(to, src) ==
    IF to.cap < Len(src)
    THEN [Data |-> src, cap |-> Len(src)]
    ELSE [Data |-> [i \in 1..Len(to.Data) |-> IF i <= Len(src) THEN src[i] ELSE to.Data[i]],
          cap |-> to.cap]

\* fastPacketSequence.To
To(m, to) ==
    LET out == CopyOut(to, [i \in 1..m.length |-> At(m.data, i - 1)])
    IN  [Time |-> m.lastReceivedFrameTime, Header |-> m.header,
         Data |-> out.Data, cap |-> out.cap]

\* the slice expression m.data[0:m.length] of To is within the array
ToInRange(m) == m.length <= FastRawPacketMaxSize

\* To up to the run-time panic of that slice expression: time, header and a
\* new Data (when the capacity was short) are set before it
ToPanics(m, to) ==
    [Time |-> m.lastReceivedFrameTime, Header |-> m.header,
     Data |-> IF to.cap < m.length THEN [i \in 1..m.length |-> 0] ELSE to.Data,
     cap |-> IF to.cap < m.length THEN m.length ELSE to.cap]

(***************************************************************************)
(* FastPacketAssembler                                                     *)
(***************************************************************************)
\* NewFastPacketAssembler(fpPGNs): the configured list
pgns == {PGNFast}

couldBeFastPacket(pgn) == pgn >= FastPacketFloor

isFastPacket(f) == couldBeFastPacket(f.Header.PGN) /\ f.Header.PGN \in pgns

\* the range loop of Assemble over inTransfer: entries with the frame's
\* (source, PGN, sequence)
Matches(list, f) ==
    {i \in 1..Len(list) :
        /\ list[i].header.Source = f.Header.Source
        /\ list[i].header.PGN = f.Header.PGN
        /\ list[i].sequence = f.Data[1] \div 32}

\* a threshold one millisecond further back
IsStaleLate(m, t) == m.lastReceivedFrameTime < t - StaleMs - 1

\* fp.lastReceivedFrameTime.Before(a.now().Add(-750 * time.Millisecond))
IsStale(m, t) == m.lastReceivedFrameTime < t - StaleMs

\* the loop resets every stale match and keeps the last match as fp
ResetStale(list, f, t) ==
    [i \in 1..Len(list) |->
        IF i \in Matches(list, f) /\ IsStale(list[i], t) THEN Reset(list[i]) ELSE list[i]]

Max(S) == CHOOSE x \in S : \A y \in S : y <= x

\* remove item idx: the last item takes its place
RemoveAt(list, idx) ==
    LET n == Len(list)
    IN  [i \in 1..(n - 1) |-> IF i = idx THEN list[n] ELSE list[i]]

\* sync.Pool.Put: from now on Get may return a used sequence
PoolPut(p) == TRUE

\* sync.Pool.Get: a sequence put back before, or pool.New's &fastPacketSequence{}
\* (the pool may drop what it holds at any time)
PoolGet(p) == IF p THEN {StaleData, ZeroData} ELSE {ZeroData}

\* Assemble on a fast-packet frame; got is the buffer pool.Get returned when no
\* sequence matched. The call ends in a panic when To slices beyond the array.
AssembleFast(list, p, f, to, t, got) ==
    LET hit   == Matches(list, f)
        list1 == ResetStale(list, f, t)
        list2 == IF hit = {} THEN Append(list1, Reset([NewSequence EXCEPT !.data = got]))
                 ELSE list1
        idx   == IF hit = {} THEN Len(list2) ELSE Max(hit)
        r     == FpAppend(list2[idx], f)
    IN  IF r.done /\ ~ToInRange(r.fp)
        THEN [inTransfer |-> [list2 EXCEPT ![idx] = r.fp],
              pool |-> p,
              msg |-> ToPanics(r.fp, to), ret |-> "panic"]
        ELSE IF r.done
        THEN [inTransfer |-> RemoveAt(list2, idx),
              pool |-> PoolPut(p),
              msg |-> To(r.fp, to), ret |-> "true"]
        ELSE [inTransfer |-> [list2 EXCEPT ![idx] = r.fp],
              pool |-> p,
              msg |-> to, ret |-> "false"]

\* Assemble on a frame that is not a fast-packet: it passes through
AssembleSingle(f, to) ==
    LET out == CopyOut(to, SubSeq(f.Data, 1, f.Length))
    IN  [Time |-> f.Time, Header |-> f.Header, Data |-> out.Data, cap |-> out.cap]

\* FastPacketAssembler.Assemble; the mutex makes the call atomic
Assemble(list, p, f, to, t, got) ==
    IF ~isFastPacket(f)
    THEN [inTransfer |-> list, pool |-> p, msg |-> AssembleSingle(f, to), ret |-> "true"]
    ELSE AssembleFast(list, p, f, to, t, got)

(***************************************************************************)
(* The bus: senders slice payloads into frames                             *)
(***************************************************************************)
Senders == {1, 2}

\* (source, sequence tag) a sender may use
Keys == {<<35, 0>>, <<35, 1>>, <<36, 0>>}

KeysOf(s) == IF s = 1 THEN {<<35, 0>>} ELSE Keys \ {<<35, 0>>}

\* payload lengths: one frame, two frames, and the longest ones
Lengths == {3, 12, MaxLen}

NoTx == [active |-> FALSE]

\* byte i of the payload sender s transmits
PayloadByte(s, i) == s * 64 + (i % 64)

Payload(s, length) == [i \in 1..length |-> PayloadByte(s, i - 1)]

\* frames a payload of the given length is sliced into: 1 + ceil((length - 6) / 7)
FramesOf(length) == IF length <= 6 THEN 1 ELSE 1 + ((length - 6 + 6) \div 7)

PadByte(s, length, i) == IF i < length THEN PayloadByte(s, i) ELSE 255

\* frame k of the message of sender s
FrameOf(s, t, k) ==
    LET x == tx[s]
        first == (x.tag * 32) + k
        data == IF k = 0
                THEN <<first, x.len>> \o [j \in 1..6 |-> PadByte(s, x.len, j - 1)]
                ELSE <<first>> \o [j \in 1..7 |-> PadByte(s, x.len, 6 + (k - 1) * 7 + j - 1)]
    IN  RawFrame(t, Header(PGNFast, 6, x.src, AddressGlobal), 8, data)

(***************************************************************************)
(* Initial state and actions                                               *)
(***************************************************************************)
\* no Assemble call has been made in the current read
NoCall == [value |-> "none", by |-> 0]

FpInit ==
    /\ inTransfer = <<>>
    /\ pool = FALSE
    /\ now = T0
    /\ msg = FreshMessage
    /\ ret = NoCall
    /\ tx = [s \in Senders |-> NoTx]


\* msg and ret are locals of the reader (Device.ReadRawMessage,
\* assembleRawMessage): every read starts with a new RawMessage
NextRead ==
    /\ msg' = FreshMessage
    /\ ret' = NoCall

HasKey(m, src, tag) ==
    m.header.Source = src /\ m.header.PGN = PGNFast /\ m.sequence = tag

\* a sender starts transmitting a payload
StartMessage(s, key, length) ==
    /\ ~tx[s].active
    /\ key \in KeysOf(s)
    /\ \A o \in Senders : tx[o].active => <<tx[o].src, tx[o].tag>> # key
    /\ tx' = [tx EXCEPT ![s] =
                [active |-> TRUE, src |-> key[1], tag |-> key[2], len |-> length,
                 sent |-> {}, n |-> 0, timely |-> TRUE, yields |-> 0,
                 clean |-> \A i \in 1..Len(inTransfer) : ~HasKey(inTransfer[i], key[1], key[2])]]
    /\ NextRead
    /\ UNCHANGED <<inTransfer, pool, now>>

\* the reader delivers frame k of sender s to Assemble
DeliverFrame(s, k, got) ==
    /\ tx[s].active
    /\ k \in 0..(FramesOf(tx[s].len) - 1)
    /\ tx[s].n < MaxDeliveries
    /\ got \in PoolGet(pool)
    /\ Matches(inTransfer, FrameOf(s, now, k)) = {} => Len(inTransfer) < MaxInFlight
    /\ LET f == FrameOf(s, now, k)
           r == Assemble(inTransfer, pool, f, FreshMessage, now, got)
       IN  /\ inTransfer' = r.inTransfer
           /\ pool' = r.pool
           /\ msg' = r.msg
           /\ ret' = [value |-> r.ret, by |-> s]
           /\ tx' = [tx EXCEPT ![s].sent = @ \cup {k},
                               ![s].n = @ + 1,
                               ![s].yields = IF r.ret = "true" THEN @ + 1 ELSE @]
    /\ UNCHANGED now

\* the sender is done with its message, or gives it up
EndMessage(s) ==
    /\ tx[s].active
    /\ tx' = [tx EXCEPT ![s] = NoTx]
    /\ NextRead
    /\ UNCHANGED <<inTransfer, pool, now>>

\* a frame of a fast-packet PGN that is too short to carry a frame header
DeliverShort(key, got) ==
    /\ got \in PoolGet(pool)
    /\ Len(inTransfer) < MaxInFlight
    /\ LET f == RawFrame(now, Header(PGNFast, 6, key[1], AddressGlobal), 1,
                         <<key[2] * 32, 0, 0, 0, 0, 0, 0, 0>>)
           r == Assemble(inTransfer, pool, f, FreshMessage, now, got)
       IN  /\ inTransfer' = r.inTransfer
           /\ pool' = r.pool
           /\ msg' = r.msg
           /\ ret' = [value |-> r.ret, by |-> 0]
    /\ UNCHANGED <<now, tx>>

\* a frame of a PGN that is not assembled
DeliverSingle(pgn, length) ==
    /\ LET f == RawFrame(now, Header(pgn, 6, 35, AddressGlobal), length,
                         [j \in 1..8 |-> IF j <= length THEN 16 + j ELSE 0])
           r == Assemble(inTransfer, pool, f, FreshMessage, now, ZeroData)
       IN  /\ inTransfer' = r.inTransfer
           /\ pool' = r.pool
           /\ msg' = r.msg
           /\ ret' = [value |-> r.ret, by |-> 0]
    /\ UNCHANGED <<now, tx>>

\* a frame of a PGN that is not assembled, given to Assemble together with the
\* message the caller got back from its previous call
DeliverSingleInto(pgn, length, first) ==
    /\ LET f == RawFrame(now, Header(pgn, 6, 35, AddressGlobal), length,
                         [j \in 1..8 |-> IF j <= length THEN first + j ELSE 0])
           r == Assemble(inTransfer, pool, f, msg, now, ZeroData)
       IN  /\ inTransfer' = r.inTransfer
           /\ pool' = r.pool
           /\ msg' = r.msg
           /\ ret' = [value |-> r.ret, by |-> 0, frame |-> f]
    /\ UNCHANGED <<now, tx>>

\* the instants of the model: the construction of the assembler, and the
\* last instant before and the first instant after a frame received then
\* is too old
Instants == {T0, T0 + StaleMs, T0 + StaleMs + 1}

\* time passes while a sequence is in flight
Tick(t) ==
    /\ t > now
    /\ \E i \in 1..Len(inTransfer) : inTransfer[i].receivedFramesMask # {}
    /\ now' = t
    /\ tx' = [s \in Senders |-> IF tx[s].active THEN [tx[s] EXCEPT !.timely = FALSE] ELSE tx[s]]
    /\ NextRead
    /\ UNCHANGED <<inTransfer, pool>>

\* one sender transmits at a time
Solo == {1}

(***************************************************************************)
(* CAN identifier codec                                                    *)
(***************************************************************************)
\* CanBusHeader.Uint32
Uint32(h) ==
    LET source == h.Source
        pf     == U8(h.PGN)
        withPs == IF pf < 240 THEN BitOr(source, h.Destination * Pow2(8)) ELSE source
        \* h.PGN << 8: a PGN has 18 bits, so nothing is shifted out of the uint32
        withPgn == BitOr(withPs, h.PGN * Pow2(8))
    IN  BitOr(withPgn, (h.Priority % 8) * Pow2(26))

\* ParseCANID
ParseCANID(id) ==
    LET ps        == U8(id \div Pow2(8))
        pduFormat == U8(id \div Pow2(16))
        rAndDP    == U8(id \div Pow2(24)) % 4
        pgn       == rAndDP * Pow2(16) + pduFormat * Pow2(8)
    IN  IF pduFormat < 240
        THEN Header(pgn, (id \div Pow2(26)) % 8, U8(id), ps)
        ELSE Header(pgn + ps, (id \div Pow2(26)) % 8, U8(id), AddressGlobal)

\* the fields the identifiers of the model are made of
Priorities == {2, 5, 6}
DataPages == {0, 1}
PduFormats == {234, 239, 240, 248, 253}
PduSpecifics == {0, 7, 35, 239, 240, 255}
SourceAddresses == {0, 23, 254}

\* a 29-bit identifier: priority, reserved and data page, PF, PS, source
CanIdOf(prio, dp, pf, ps, sa) ==
    prio * Pow2(26) + dp * Pow2(24) + pf * Pow2(16) + ps * Pow2(8) + sa

CanIds ==
    {CanIdOf(prio, dp, pf, ps, sa) :
        prio \in Priorities, dp \in DataPages, pf \in PduFormats,
        ps \in PduSpecifics, sa \in SourceAddresses}

CanInit ==
    /\ canID \in CanIds
    /\ canHeader = ZeroHeader
    /\ canOut = 0
    /\ canPc = "id"

\* the codec is not exercised
CanIdle ==
    /\ canID = 0
    /\ canHeader = ZeroHeader
    /\ canOut = 0
    /\ canPc = "off"

\* header := ParseCANID(canID)
CanParse ==
    /\ canPc = "id"
    /\ canHeader' = ParseCANID(canID)
    /\ canPc' = "parsed"
    /\ UNCHANGED <<canID, canOut>>

\* header.Uint32()
CanEncode ==
    /\ canPc = "parsed"
    /\ canOut' = Uint32(canHeader)
    /\ canPc' = "encoded"
    /\ UNCHANGED <<canID, canHeader>>

(***************************************************************************)
(* Address mapper                                                          *)
(***************************************************************************)
Nil == [nil |-> TRUE]

\* binary.LittleEndian.Uint64(b): b[1] is the least significant byte
LittleEndianUint64(b) ==
    ((((((b[8] * 256 + b[7]) * 256 + b[6]) * 256 + b[5]) * 256 + b[4]) * 256
        + b[3]) * 256 + b[2]) * 256 + b[1]

\* createISORequest(forPGN, destination)
createISORequest(forPGN, destination) ==
    [Header |-> Header(PGNISORequest, 6, AddressNull, destination),
     Data |-> <<forPGN % 256, (forPGN \div 256) % 256, (forPGN \div 65536) % 256>>]

\* new(busSlot); node 0 is the nil pointer, a node is named by its NAME
NewSlot == [node |-> 0, productInfoRequested |-> FALSE, configInfoRequested |-> FALSE]

\* &Node{Source, NAME, ValidName: true}
NewNode(source) == [Source |-> source, ValidName |-> TRUE, ValidProductInfo |-> FALSE]

\* the state Process leaves behind and the request it sends, if any
Outcome(known, slot, send) == [known |-> known, slot |-> slot, send |-> send]

\* the goroutines that call ToggleWrite, Process and BroadcastIsoAddressClaimRequest
Callers == {"a", "b"}

Idle == [pc |-> "idle"]

\* NewAddressMapper
MapperInit ==
    /\ mutex = "free"
    /\ writeEnabled = FALSE
    /\ isRunning = FALSE
    /\ requestsChan = <<>>
    /\ knownNodes = <<>>
    /\ address2node = <<>>
    /\ callPc = [c \in Callers |-> Idle]
    /\ runPc = "none"
    /\ enabled = FALSE
    /\ buffer = <<>>
    /\ lastWrite = Nil
    /\ cancelled = FALSE

\* m.requestsChan <- req by caller c, who holds the mutex until its deferred
\* Unlock: the send goes through when the channel has room, and blocks otherwise
SendRequest(c, req) ==
    IF Len(requestsChan) < ChanSize
    THEN /\ requestsChan' = Append(requestsChan, req)
         /\ callPc' = [callPc EXCEPT ![c] = Idle]
         /\ mutex' = "free"
    ELSE /\ requestsChan' = requestsChan
         /\ callPc' = [callPc EXCEPT ![c] = [pc |-> "requestSend", req |-> req]]
         /\ mutex' = c

\* AddressMapper.ToggleWrite up to its channel send
ToggleWrite(c) ==
    /\ callPc[c].pc = "idle"
    /\ mutex = "free"
    /\ writeEnabled' = ~writeEnabled
    /\ IF isRunning
       THEN /\ callPc' = [callPc EXCEPT ![c] = [pc |-> "toggleSend", value |-> ~writeEnabled]]
            /\ mutex' = c
       ELSE UNCHANGED <<callPc, mutex>>
    /\ UNCHANGED <<isRunning, requestsChan, knownNodes, address2node, runPc, enabled,
                   buffer, lastWrite, cancelled>>

\* AddressMapper.BroadcastIsoAddressClaimRequest
BroadcastIsoAddressClaimRequest(c) ==
    /\ callPc[c].pc = "idle"
    /\ mutex = "free"
    /\ SendRequest(c, createISORequest(PGNISOAddressClaim, AddressGlobal))
    /\ UNCHANGED <<writeEnabled, isRunning, knownNodes, address2node, runPc, enabled,
                   buffer, lastWrite, cancelled>>

\* a send that blocked on a full channel goes through once the channel has room
CompleteSend(c) ==
    /\ callPc[c].pc = "requestSend"
    /\ Len(requestsChan) < ChanSize
    /\ requestsChan' = Append(requestsChan, callPc[c].req)
    /\ callPc' = [callPc EXCEPT ![c] = Idle]
    /\ mutex' = "free"
    /\ UNCHANGED <<writeEnabled, isRunning, knownNodes, address2node, runPc, enabled,
                   buffer, lastWrite, cancelled>>

\* processISOAddressClaim that leaves the incumbent of a slot its source
\* when a lower NAME takes the slot
processISOAddressClaimKeepsSource(slot, raw) ==
    LET source == raw.Header.Source
        NAME   == LittleEndianUint64(raw.Data)
        known1 == IF NAME \in DOMAIN knownNodes THEN knownNodes
                  ELSE [n \in DOMAIN knownNodes \cup {NAME} |->
                            IF n = NAME THEN NewNode(source) ELSE knownNodes[n]]
        takes  == slot.node # 0 /\ known1[slot.node].ValidName /\ NAME < slot.node
        known2 == IF slot.node = 0 \/ takes
                  THEN [known1 EXCEPT ![NAME].Source = source]
                  ELSE known1
        slot1  == IF slot.node = 0 \/ takes THEN [slot EXCEPT !.node = NAME] ELSE slot
    IN  IF Len(raw.Data) # 8
        THEN Outcome(knownNodes, slot, Nil)
        ELSE IF writeEnabled /\ ~slot1.productInfoRequested
        THEN Outcome(known2, [slot1 EXCEPT !.productInfoRequested = TRUE],
                     createISORequest(PGNProductInfo, source))
        ELSE Outcome(known2, slot1, Nil)

\* processISOAddressClaim that asks for the Product Info on every claim,
\* whether the slot has asked before or not
processISOAddressClaimAsksAgain(slot, raw) ==
    LET source == raw.Header.Source
        NAME   == LittleEndianUint64(raw.Data)
        known1 == IF NAME \in DOMAIN knownNodes THEN knownNodes
                  ELSE [n \in DOMAIN knownNodes \cup {NAME} |->
                            IF n = NAME THEN NewNode(source) ELSE knownNodes[n]]
        takes  == slot.node # 0 /\ known1[slot.node].ValidName /\ NAME < slot.node
        known2 == IF slot.node = 0
                  THEN [known1 EXCEPT ![NAME].Source = source]
                  ELSE IF takes
                  THEN [[known1 EXCEPT ![slot.node].Source = AddressNull]
                            EXCEPT ![NAME].Source = source]
                  ELSE known1
        slot1  == IF slot.node = 0 \/ takes THEN [slot EXCEPT !.node = NAME] ELSE slot
    IN  IF Len(raw.Data) # 8
        THEN Outcome(knownNodes, slot, Nil)
        ELSE IF writeEnabled
        THEN Outcome(known2, [slot1 EXCEPT !.productInfoRequested = TRUE],
                     createISORequest(PGNProductInfo, source))
        ELSE Outcome(known2, slot1, Nil)

\* AddressMapper.processISOAddressClaim on the slot of the message
processISOAddressClaim(slot, raw) ==
    LET source == raw.Header.Source
        NAME   == LittleEndianUint64(raw.Data)
        known1 == IF NAME \in DOMAIN knownNodes THEN knownNodes
                  ELSE [n \in DOMAIN knownNodes \cup {NAME} |->
                            IF n = NAME THEN NewNode(source) ELSE knownNodes[n]]
        takes  == slot.node # 0 /\ known1[slot.node].ValidName /\ NAME < slot.node
        known2 == IF slot.node = 0
                  THEN [known1 EXCEPT ![NAME].Source = source]
                  ELSE IF takes
                  THEN [[known1 EXCEPT ![slot.node].Source = AddressNull]
                            EXCEPT ![NAME].Source = source]
                  ELSE known1
        slot1  == IF slot.node = 0 \/ takes THEN [slot EXCEPT !.node = NAME] ELSE slot
    IN  IF Len(raw.Data) # 8
        THEN Outcome(knownNodes, slot, Nil)
        ELSE IF writeEnabled /\ ~slot1.productInfoRequested
        THEN Outcome(known2, [slot1 EXCEPT !.productInfoRequested = TRUE],
                     createISORequest(PGNProductInfo, source))
        ELSE Outcome(known2, slot1, Nil)

\* AddressMapper.processProductInfo on the slot of the message
processProductInfo(slot, raw) ==
    IF slot.node = 0 \/ knownNodes[slot.node].ValidName
    THEN Outcome(knownNodes, slot, Nil)
    ELSE IF Len(raw.Data) # ProductInfoSize
    THEN Outcome(knownNodes, slot, Nil)
    ELSE LET known1 == [knownNodes EXCEPT ![slot.node].ValidProductInfo = TRUE]
         IN  IF writeEnabled /\ ~slot.configInfoRequested
             THEN Outcome(known1, [slot EXCEPT !.configInfoRequested = TRUE],
                          createISORequest(PGNConfigurationInformation, raw.Header.Source))
             ELSE Outcome(known1, slot, Nil)

\* the body of AddressMapper.Process under the mutex
ProcessOutcome(raw) ==
    LET source == raw.Header.Source
        slot   == IF source >= AddressNull \/ source \notin DOMAIN address2node
                  THEN NewSlot ELSE address2node[source]
        out    == IF raw.Header.PGN = PGNISOAddressClaim THEN processISOAddressClaim(slot, raw)
                  ELSE IF raw.Header.PGN = PGNProductInfo THEN processProductInfo(slot, raw)
                  ELSE Outcome(knownNodes, slot, Nil)
        slots  == IF source >= AddressNull THEN address2node
                  ELSE [a \in DOMAIN address2node \cup {source} |->
                            IF a = source THEN out.slot ELSE address2node[a]]
    IN  [known |-> out.known, slots |-> slots, send |-> out.send]

\* the bool Process returns: isBusNodeChanged of processISOAddressClaim, false
\* for every other PGN and when the claim cannot be parsed
isBusNodeChanged(raw) ==
    LET source == raw.Header.Source
        slot   == IF source >= AddressNull \/ source \notin DOMAIN address2node
                  THEN NewSlot ELSE address2node[source]
        NAME   == LittleEndianUint64(raw.Data)
    IN  /\ raw.Header.PGN = PGNISOAddressClaim
        /\ Len(raw.Data) = 8
        /\ \/ slot.node = 0
           \/ (knownNodes[slot.node].ValidName /\ NAME < slot.node)

\* AddressMapper.Process
Process(c, raw) ==
    /\ callPc[c].pc = "idle"
    /\ mutex = "free"
    /\ LET out == ProcessOutcome(raw)
       IN  /\ knownNodes' = out.known
           /\ address2node' = out.slots
           /\ IF out.send = Nil
              THEN UNCHANGED <<requestsChan, callPc, mutex>>
              ELSE SendRequest(c, out.send)
    /\ UNCHANGED <<writeEnabled, isRunning, runPc, enabled, buffer, lastWrite, cancelled>>

\* no Process call has been made
ProcessIdle == processed = Nil

\* a Process call as its caller sees it: the message, the node the slot of
\* its source held when the call began, and the bool the call returned
ProcessCall(c, raw) ==
    /\ Process(c, raw)
    /\ processed' =
          [raw |-> raw,
           held |-> IF raw.Header.Source \in DOMAIN address2node
                    THEN address2node[raw.Header.Source].node ELSE 0,
           changed |-> isBusNodeChanged(raw)]

\* the nodes the loop of NodesInUseBySource does not skip
NodesInUse ==
    {name \in DOMAIN knownNodes :
        ~(knownNodes[name].Source >= AddressNull /\ ~knownNodes[name].ValidName)}

\* AddressMapper.NodesInUseBySource: the maps from source to NAME the call may
\* return; of two nodes with one source the one the range over the map
\* knownNodes visits last stays in the result
NodesInUseBySource ==
    {m \in [{knownNodes[name].Source : name \in NodesInUse} -> NodesInUse] :
        \A s \in DOMAIN m : knownNodes[m[s]].Source = s}

\* an Enqueue that makes room by dropping the oldest message
EnqueueDropsOldest(q, item) ==
    IF Len(q) = QueueSize THEN Append(Tail(q), item) ELSE Append(q, item)

\* queue.Enqueue
Enqueue(q, item) == IF Len(q) = QueueSize THEN q ELSE Append(q, item)

\* Run up to its loop: Lock, the isRunning check, Unlock
RunStart ==
    /\ runPc = "none"
    /\ mutex = "free"
    /\ IF isRunning
       THEN \* return without Unlock
            /\ mutex' = "run"
            /\ runPc' = "returned"
            /\ UNCHANGED <<isRunning, enabled>>
       ELSE /\ isRunning' = TRUE
            /\ enabled' = writeEnabled
            /\ runPc' = "loop"
            /\ UNCHANGED mutex
    /\ UNCHANGED <<writeEnabled, requestsChan, knownNodes, address2node, callPc,
                   buffer, lastWrite, cancelled>>

\* case writeEnabled := <-m.toggleWriteChan: the rendezvous with ToggleWrite of c,
\* which then returns and unlocks
RunToggle(c) ==
    /\ runPc = "loop"
    /\ callPc[c].pc = "toggleSend"
    /\ enabled' = callPc[c].value
    /\ callPc' = [callPc EXCEPT ![c] = Idle]
    /\ mutex' = "free"
    /\ UNCHANGED <<writeEnabled, isRunning, requestsChan, knownNodes, address2node,
                   runPc, buffer, lastWrite, cancelled>>

\* case msg, ok := <-m.requestsChan
RunRequest ==
    /\ runPc = "loop"
    /\ requestsChan # <<>>
    /\ requestsChan' = Tail(requestsChan)
    /\ buffer' = IF enabled THEN Enqueue(buffer, Head(requestsChan)) ELSE buffer
    /\ UNCHANGED <<mutex, writeEnabled, isRunning, knownNodes, address2node, callPc,
                   runPc, enabled, lastWrite, cancelled>>

\* case <-writeTimer.C: the ticker runs while enabled; Dequeue and write
RunWrite ==
    /\ runPc = "loop"
    /\ enabled
    /\ buffer # <<>>
    /\ lastWrite' = Head(buffer)
    /\ buffer' = Tail(buffer)
    /\ UNCHANGED <<mutex, writeEnabled, isRunning, requestsChan, knownNodes, address2node,
                   callPc, runPc, enabled, cancelled>>

\* case <-ctx.Done(): return ctx.Err(), the deferred function is next
RunDone ==
    /\ runPc = "loop"
    /\ cancelled
    /\ runPc' = "deferred"
    /\ UNCHANGED <<mutex, writeEnabled, isRunning, requestsChan, knownNodes, address2node,
                   callPc, enabled, buffer, lastWrite, cancelled>>

\* the deferred function of Run: Lock, isRunning = false, Unlock
RunDeferred ==
    /\ runPc = "deferred"
    /\ mutex = "free"
    /\ isRunning' = FALSE
    /\ runPc' = "returned"
    /\ UNCHANGED <<mutex, writeEnabled, requestsChan, knownNodes, address2node, callPc,
                   enabled, buffer, lastWrite, cancelled>>

\* the owner of the context cancels it
Cancel ==
    /\ ~cancelled
    /\ cancelled' = TRUE
    /\ UNCHANGED <<mutex, writeEnabled, isRunning, requestsChan, knownNodes, address2node,
                   callPc, runPc, enabled, buffer, lastWrite>>

\* the messages given to Process: address claims of two NAMEs (2 and 257) from
\* two bus addresses and from the null address, and a product information
ClaimData == {<<2, 0, 0, 0, 0, 0, 0, 0>>, <<1, 1, 0, 0, 0, 0, 0, 0>>}

ClaimSources == {1, 2, AddressNull}

Claims ==
    {[Header |-> Header(PGNISOAddressClaim, 6, src, AddressGlobal), Data |-> data] :
        src \in ClaimSources, data \in ClaimData}

ProductInfos ==
    {[Header |-> Header(PGNProductInfo, 6, 1, AddressGlobal),
      Data |-> [i \in 1..ProductInfoSize |-> 0]]}

\* the messages Process is given while Run is looked at: the claims of one NAME
RunClaims == {raw \in Claims : raw.Data[1] = 2 /\ raw.Header.Source # 2}

(***************************************************************************)
(* Actisense binary reader                                                 *)
(***************************************************************************)
\* raw[i] of a Go slice held as a sequence
Idx(raw, i) == raw[i + 1]

\* raw[from:to]
Slice(raw, from, to) == [i \in 1..(to - from) |-> raw[from + i]]

\* what a parser gives back: a message, an error, or a run-time panic
Message(t, h, data) == [kind |-> "msg", Time |-> t, Header |-> h, Data |-> data]

Failure == [kind |-> "error"]

Panic == [kind |-> "panic"]

\* crc: the sum of the bytes modulo 256, in uint16 steps
RECURSIVE crc(_)
crc(data) ==
    IF data = <<>> THEN 0
    ELSE LET c  == crc(SubSeq(data, 1, Len(data) - 1))
             dd == data[Len(data)]
         IN  IF c + dd > 255 THEN dd - (256 - c) ELSE c + dd

\* binary.LittleEndian.Uint32(b); the identifiers of the model have bit 31 clear
LittleEndianUint32(b) == ((b[4] * 256 + b[3]) * 256 + b[2]) * 256 + b[1]

\* fromRawActisenseMessage
fromRawActisenseMessage(raw, t) ==
    LET dLen == Idx(raw, 1)
    IN  IF Len(raw) < 8 THEN Failure
        ELSE IF dLen + 3 # Len(raw) THEN Failure
        ELSE IF crc(raw) # 0 THEN Failure
        ELSE IF dLen - 6 < 0 THEN Panic
        ELSE Message(t, ParseCANID(LittleEndianUint32(Slice(raw, 4, 8))),
                     Slice(raw, 8, Len(raw) - 1))

\* fromActisenseNGTBinaryMessage
fromActisenseNGTBinaryMessage(raw, t) ==
    LET length   == Len(raw) - 2
        data     == Slice(raw, 2, Len(raw))
        l        == Idx(data, 10)
        endIndex == 11 + l
        pgn      == Idx(data, 1) + Idx(data, 2) * 256 + Idx(data, 3) * 65536
    IN  IF Len(raw) < 2 THEN Panic
        ELSE IF length < 11 THEN Failure
        ELSE IF length # endIndex + 1 THEN Failure
        ELSE IF crc(raw) # 0 THEN Failure
        ELSE Message(t, Header(pgn, Idx(data, 0), Idx(data, 5), Idx(data, 4)),
                     Slice(data, 11, endIndex))

\* fromActisenseN2KBinaryMessage
fromActisenseN2KBinaryMessage(raw, t) ==
    LET length    == Idx(raw, 1) + Idx(raw, 2) * 256
        dprp      == Idx(raw, 7)
        prio      == (dprp \div 4) % 8
        rAndDP    == dprp % 4
        pduFormat == Idx(raw, 6)
        pgn       == rAndDP * 65536 + pduFormat * 256
                        + (IF pduFormat >= 240 THEN Idx(raw, 5) ELSE 0)
    IN  IF Len(raw) < 3 THEN Panic
        ELSE IF length + 1 # Len(raw) THEN Failure
        ELSE IF Len(raw) < 13 THEN Panic
        ELSE Message(t, Header(pgn, prio, Idx(raw, 4), Idx(raw, 3)),
                     Slice(raw, 13, Len(raw)))

\* the switch on message[0] once DLE ETX has ended a message; Nil when the
\* message is of no type the device hands on (Config.OutputActisenseMessages
\* is off) and the reader goes on
Dispatch(message, index, t) ==
    LET raw   == [i \in 1..index |-> At(message, i - 1)]
        first == At(message, 0)
    IN  IF first \in {cmdNGTMessageReceived, cmdNGTMessageSend}
        THEN fromActisenseNGTBinaryMessage(raw, t)
        ELSE IF first \in {cmdN2KMessageReceived, cmdN2KMessageSend}
        THEN fromActisenseN2KBinaryMessage(raw, t)
        ELSE IF first \in {cmdRAWActisenseMessageReceived, cmdRAWActisenseMessageSend}
        THEN fromRawActisenseMessage(raw, t)
        ELSE Nil

\* the locals of ReadRawMessage at its start
NewCall ==
    [state |-> "waitingStartOfMessage", messageByteIndex |-> 0, message |-> ZeroData,
     previousByte |-> 0, currentByte |-> 0]

\* message[messageByteIndex] = b; messageByteIndex++
Store(r, b) ==
    [r EXCEPT !.message = CopyInto(r.message, r.messageByteIndex, <<b>>),
              !.messageByteIndex = r.messageByteIndex + 1]

\* one turn of the loop of ReadRawMessage with the byte b read: the locals
\* after it and the value returned, Nil while the call goes on
ReadStep(r0, b, t) ==
    LET r == [r0 EXCEPT !.previousByte = r0.currentByte, !.currentByte = b]
        discard == [r EXCEPT !.state = "waitingStartOfMessage", !.messageByteIndex = 0]
    IN  IF r.state = "waitingStartOfMessage"
        THEN [rd |-> IF r.previousByte = DLE /\ b = STX
                     THEN [r EXCEPT !.state = "readingMessageData"] ELSE r,
              out |-> Nil]
        ELSE IF r.state = "readingMessageData"
        THEN IF b = DLE
             THEN [rd |-> [r EXCEPT !.state = "processingEscapeSequence"], out |-> Nil]
             ELSE IF r.messageByteIndex >= ISOTPDataMaxSize
             THEN [rd |-> r, out |-> Panic]
             ELSE [rd |-> Store(r, b), out |-> Nil]
        ELSE IF b = DLE
             THEN IF r.messageByteIndex >= ISOTPDataMaxSize
                  THEN [rd |-> r, out |-> Panic]
                  ELSE [rd |-> Store([r EXCEPT !.state = "readingMessageData"], b), out |-> Nil]
             ELSE IF b = ETX
             THEN [rd |-> discard, out |-> Dispatch(r.message, r.messageByteIndex, t)]
             ELSE [rd |-> discard, out |-> Nil]

\* the byte stuffing of the gateway: DLE STX, the bytes with every DLE
\* doubled, DLE ETX
RECURSIVE Stuff(_)
Stuff(bytes) ==
    IF bytes = <<>> THEN <<>>
    ELSE (IF Head(bytes) = DLE THEN <<DLE, DLE>> ELSE <<Head(bytes)>>) \o Stuff(Tail(bytes))

Framed(bytes) == <<DLE, STX>> \o Stuff(bytes) \o <<DLE, ETX>>

\* a RAW Actisense message with its checksum: command, length, counter,
\* CAN identifier 0x09F80100 (little endian), two data bytes
GoodBody == <<cmdRAWActisenseMessageReceived, 8, 62, 183, 0, 1, 248, 9, DLE, 7>>

GoodRaw == Append(GoodBody, (256 - crc(GoodBody)) % 256)

GoodFrame == Framed(GoodRaw)

\* the message the well-formed frame carries
GoodMessage(t) == Message(t, Header(129025, 2, 0, AddressGlobal), <<DLE, 7>>)

\* the bytes ahead of the well-formed frame: noise, or a frame that was cut off
GarbageBytes == {DLE, STX, ETX, cmdRAWActisenseMessageReceived, 7}

RECURSIVE SeqsUpTo(_, _)
SeqsUpTo(S, n) ==
    IF n = 0 THEN {<<>>}
    ELSE LET shorter == SeqsUpTo(S, n - 1)
         IN  shorter \cup {Append(q, x) : q \in {p \in shorter : Len(p) = n - 1}, x \in S}

Garbage == SeqsUpTo(GarbageBytes, MaxGarbage)

\* no call of ReadRawMessage is made
ReaderIdle ==
    /\ stream = <<>>
    /\ rd = NewCall
    /\ results = <<>>

\* the device delivers garbage and then a well-formed frame
ReaderInit ==
    /\ stream \in {g \o GoodFrame : g \in Garbage}
    /\ rd = NewCall
    /\ results = <<>>

\* d.device.Read(buf) delivers the next byte to the call in progress; when the
\* call returns the caller makes the next call
ReadByte ==
    /\ stream # <<>>
    /\ LET step == ReadStep(rd, Head(stream), now)
       IN  /\ stream' = Tail(stream)
           /\ IF step.out = Nil
              THEN rd' = step.rd /\ UNCHANGED results
              ELSE rd' = NewCall /\ results' = Append(results, step.out)

\* the three binary formats, each message without its last byte: an NGT
\* message (command, length, priority, PGN 129025, destination, source,
\* timestamp, data length, data), an N2K message (command, length, destination,
\* source, PS, PF, priority bits, control, timestamp, data) and a RAW message
NgtBody == <<cmdNGTMessageReceived, 13, 2, 1, 248, 1, AddressGlobal, 35, 0, 0, 0, 0, 2, DLE, 7>>

N2kBody == <<cmdN2KMessageReceived, 15, 0, AddressGlobal, 35, 1, 248, 8, 0, 0, 0, 0, 0, DLE, 7>>

Bodies == {NgtBody, N2kBody, GoodBody}

\* the byte that makes the sum of the message 0 modulo 256
Checksum(body) == (256 - crc(body)) % 256

\* the last byte as the gateway sends it, and as a line fault leaves it
LastBytes(body) == {Checksum(body), U8(Checksum(body) + 1), U8(Checksum(body) + 128)}

\* the device delivers one frame of one of the formats
CrcInit ==
    /\ stream \in {Framed(Append(body, c)) : body \in Bodies, c \in {0, 1, 255}} \cup
                  UNION {{Framed(Append(body, c)) : c \in LastBytes(body)} : body \in Bodies}
    /\ rd = NewCall
    /\ results = <<>>

(***************************************************************************)
(* Gateway writes: WriteRawMessage and writeBstMessage                     *)
(***************************************************************************)
maxRetry == 5

RetryPauseMs == 250

\* no gateway call is in progress
NoWrite == [pc |-> "idle"]

NoRead == [pc |-> "none"]

GatewayIdle ==
    /\ wr = NoWrite
    /\ rc = NoRead
    /\ ctxDone = FALSE

\* the buffer WriteRawMessage builds of a message: command, length, priority,
\* PGN (little endian), destination, data length, data
BstBuffer(m, isN2KWriter) ==
    <<IF isN2KWriter THEN cmdN2KMessageSend ELSE cmdNGTMessageSend,
      U8(Len(m.Data) + 6),
      m.Header.Priority,
      U8(m.Header.PGN), U8(m.Header.PGN \div 256), U8(m.Header.PGN \div 65536),
      m.Header.Destination,
      U8(Len(m.Data))>> \o m.Data

\* the packet of writeBstMessage: DLE STX, the data with every DLE doubled,
\* the checksum byte as it is, DLE ETX
BstPacket(data) == <<DLE, STX>> \o Stuff(data) \o <<U8(256 - crc(data)), DLE, ETX>>

\* the messages the callers write: an ISO request and a short command
WriteMessages ==
    {createISORequest(PGNProductInfo, 1),
     [Header |-> Header(PGNISORequest, 6, AddressNull, AddressGlobal), Data |-> <<DLE, 7, DLE>>]}

\* WriteRawMessage(ctx, msg) up to the loop of writeBstMessage; ctx is not
\* looked at
WriteRawMessage(m, isN2KWriter) ==
    /\ wr.pc \in {"idle", "returned"}
    /\ wr' = [pc |-> "loop",
              toWrite |-> Len(BstPacket(BstBuffer(m, isN2KWriter))),
              totalWritten |-> 0,
              retryCount |-> 0,
              err |-> "none",
              writes |-> 0,
              paused |-> 0,
              onlyEagain |-> TRUE,
              progress |-> FALSE]
    /\ UNCHANGED <<rc, ctxDone>>

\* what d.device.Write(packet) may return: the whole packet and no error, or
\* fewer bytes and an error (io.Writer)
WriteOutcomes(toWrite) ==
    {[n |-> toWrite, err |-> "nil"]} \cup
    {[n |-> k, err |-> e] : k \in {0, 1, toWrite \div 2}, e \in {"EAGAIN", "EIO"}}

\* one turn of the loop of writeBstMessage, the sleep at its end included
WriteTurn(o) ==
    /\ wr.pc = "loop"
    /\ o \in WriteOutcomes(wr.toWrite)
    /\ LET retryCount   == IF o.err = "EAGAIN" THEN wr.retryCount + 1 ELSE wr.retryCount
           totalWritten == wr.totalWritten + o.n
           called == [wr EXCEPT !.writes = @ + 1,
                                !.onlyEagain = @ /\ o.err = "EAGAIN",
                                !.progress = @ \/ o.n > 0]
       IN  IF o.err \notin {"nil", "EAGAIN"}
           THEN wr' = [called EXCEPT !.pc = "returned", !.err = "write failure"]
           ELSE IF totalWritten >= wr.toWrite
           THEN wr' = [called EXCEPT !.pc = "returned", !.err = "nil",
                                     !.retryCount = retryCount,
                                     !.totalWritten = totalWritten]
           ELSE IF retryCount > maxRetry
           THEN wr' = [called EXCEPT !.pc = "returned", !.err = "retry count reached",
                                     !.retryCount = retryCount,
                                     !.totalWritten = totalWritten]
           ELSE wr' = [called EXCEPT !.retryCount = retryCount,
                                     !.totalWritten = totalWritten,
                                     !.paused = @ + RetryPauseMs]
    /\ UNCHANGED <<rc, ctxDone>>

\* the caller cancels the context
CancelCtx ==
    /\ ~ctxDone
    /\ ctxDone' = TRUE
    /\ UNCHANGED <<wr, rc>>

(***************************************************************************)
(* Gateway reads on a device that may stay silent                          *)
(***************************************************************************)
DefaultTimeoutMs == 5000

\* Config.ReceiveDataTimeout as callers set it, in milliseconds: not set, and
\* values below, at and above the default
Configs == {0, 1000, DefaultTimeoutMs, 10000}

\* the time one d.device.Read call takes, and the latest instant of the model
ReadSteps == {1000, 3000}

MaxClock == 12000
MaxDefinitions == 3   \* PGN definitions in a schema of the model
MaxSocketMs == 300    \* the longest ReadRawMessage call of a SocketCAN device, ms

\* NewBinaryDeviceWithConfig(reader, config): the config the device keeps
EffectiveTimeout(configured) == IF configured > 0 THEN DefaultTimeoutMs ELSE configured

\* NewBinaryDeviceWithConfig and the start of ReadRawMessage(ctx)
StartRead(configured) ==
    /\ rc.pc = "none"
    /\ rc' = [pc |-> "loop",
              configured |-> configured,
              timeout |-> EffectiveTimeout(configured),
              clock |-> 0,
              lastReadWithDataTime |-> 0,
              err |-> "none",
              reads |-> 0,
              lastRead |-> "none"]
    /\ rd' = NewCall
    /\ UNCHANGED <<stream, results, wr, ctxDone>>

\* one turn of the loop of ReadRawMessage; the Read call takes dt and
\* delivers a byte, or nothing with io.EOF or os.ErrDeadlineExceeded, or fails
ReadTurn(o, dt) ==
    /\ rc.pc = "loop"
    /\ IF ctxDone
       THEN /\ rc' = [rc EXCEPT !.pc = "returned", !.err = "context canceled"]
            /\ UNCHANGED <<stream, rd, results>>
       ELSE LET t    == rc.clock + dt
                read == [rc EXCEPT !.clock = t, !.reads = @ + 1, !.lastRead = o]
            IN  /\ t <= MaxClock
                /\ CASE o = "data" ->
                          /\ stream # <<>>
                          /\ LET step == ReadStep(rd, Head(stream), t)
                                 got  == [read EXCEPT !.lastReadWithDataTime = t]
                             IN  /\ stream' = Tail(stream)
                                 /\ IF step.out = Nil
                                    THEN /\ rc' = got
                                         /\ rd' = step.rd
                                         /\ UNCHANGED results
                                    ELSE /\ rc' = [got EXCEPT !.pc = "returned",
                                                              !.err = step.out.kind]
                                         /\ rd' = NewCall
                                         /\ results' = Append(results, step.out)
                     [] o = "EOF" ->
                          /\ rc' = IF t - rc.lastReadWithDataTime > rc.timeout
                                   THEN [read EXCEPT !.pc = "returned", !.err = "EOF"]
                                   ELSE read
                          /\ UNCHANGED <<stream, rd, results>>
                     [] o = "deadline" ->
                          /\ rc' = read
                          /\ UNCHANGED <<stream, rd, results>>
                     [] o = "EIO" ->
                          /\ rc' = [read EXCEPT !.pc = "returned", !.err = "EIO"]
                          /\ UNCHANGED <<stream, rd, results>>
    /\ UNCHANGED <<wr, ctxDone>>

\* the gateway has a well-formed frame to deliver, all of it or its first bytes
SilentInit ==
    /\ stream \in {GoodFrame, SubSeq(GoodFrame, 1, 4)}
    /\ rd = NewCall
    /\ results = <<>>

(***************************************************************************)
(* Canboat schema and decoder (package canboat)                            *)
(***************************************************************************)
\* RawData.decodeVariableInt on fields of at most two bytes: an error for a
\* field that ends behind the data, the bits of the field, and the three
\* special values of fields of 8 bits and more
decodeVariableInt(data, bitOffset, bitLength, signed) ==
    LET startByteIndex == bitOffset \div 8
        endByteIndex   == ((bitOffset + bitLength + 7) \div 8) - 1
        byte(i)        == IF i <= endByteIndex THEN data[i + 1] ELSE 0
        raw            == byte(startByteIndex) + 256 * byte(startByteIndex + 1)
        mask           == Pow2(bitLength) - 1
        result         == (raw \div Pow2(bitOffset % 8)) % Pow2(bitLength)
        isNegative     == signed /\ result >= Pow2(bitLength - 1)
        special        == IF signed THEN mask \div 2 ELSE mask
    IN  IF endByteIndex >= Len(data)
        THEN [value |-> 0, err |-> "out of bounds"]
        ELSE IF bitLength >= 8 /\ result = special
        THEN [value |-> 0, err |-> "ErrValueNoData"]
        ELSE IF bitLength >= 8 /\ result = special - 1
        THEN [value |-> 0, err |-> "ErrValueOutOfRange"]
        ELSE IF bitLength >= 8 /\ result = special - 2
        THEN [value |-> 0, err |-> "ErrValueReserved"]
        ELSE [value |-> IF isNegative THEN result - Pow2(bitLength) ELSE result,
              err |-> "nil"]

DecodeVariableUint(data, bitOffset, bitLength) ==
    decodeVariableInt(data, bitOffset, bitLength, FALSE)

DecodeVariableInt(data, bitOffset, bitLength) ==
    decodeVariableInt(data, bitOffset, bitLength, TRUE)

\* a field and a PGN definition as the schema document gives them
JsonField(id, type, match, bitOffset, bitLength) ==
    [ID |-> id, FieldType |-> type, Match |-> match,
     BitOffset |-> bitOffset, BitLength |-> bitLength]

JsonPGN(pgn, id, fields) ==
    [PGN |-> pgn, ID |-> id, Fields |-> fields,
     RepeatingFieldSet1StartField |-> 0, RepeatingFieldSet1CountField |-> 0,
     RepeatingFieldSet2StartField |-> 0, RepeatingFieldSet2CountField |-> 0]

\* the definitions of the documents: four of PGN 126720, of which "a" and "c"
\* both match a payload that starts with 1, 3 and "d" has no Match literal,
\* and one of PGN 127250 with the field ID "sid" twice
JsonPGNs ==
    { JsonPGN(126720, "a", <<JsonField("code", "NUMBER", 1, 0, 8)>>),
      JsonPGN(126720, "b", <<JsonField("code", "NUMBER", 2, 0, 8)>>),
      JsonPGN(126720, "c", <<JsonField("code", "NUMBER", 1, 0, 8),
                             JsonField("kind", "NUMBER", 3, 8, 8)>>),
      JsonPGN(126720, "d", <<JsonField("mmsi", "MMSI", 0, 0, 8)>>),
      JsonPGN(127250, "e", <<JsonField("sid", "NUMBER", 0, 0, 8),
                             JsonField("sid", "NUMBER", 0, 8, 8)>>) }

\* the lists of up to MaxDefinitions different definitions
RECURSIVE DefinitionLists(_)
DefinitionLists(n) ==
    IF n = 0 THEN {<<>>}
    ELSE LET shorter == DefinitionLists(n - 1)
         IN  shorter \cup
             {Append(s, p) : s \in {x \in shorter : Len(x) = n - 1},
                             p \in JsonPGNs} 

DistinctLists(n) ==
    {s \in DefinitionLists(n) :
        /\ s # <<>>
        /\ \A i, j \in DOMAIN s : i # j => s[i] # s[j]}

\* the files LoadCANBoatSchema is given: one that cannot be opened, one that
\* is not JSON, and the schemas
Documents ==
    {[kind |-> "missing"], [kind |-> "malformed"]}
    \cup {[kind |-> "json", PGNs |-> s] : s \in DistinctLists(MaxDefinitions)}

\* PGN.UnmarshalJSON: the fields of the document and the synthetic IsMatchable
UnmarshalJSON(p) ==
    [PGN |-> p.PGN, ID |-> p.ID, Fields |-> p.Fields,
     RepeatingFieldSet1StartField |-> p.RepeatingFieldSet1StartField,
     RepeatingFieldSet1CountField |-> p.RepeatingFieldSet1CountField,
     RepeatingFieldSet2StartField |-> p.RepeatingFieldSet2StartField,
     RepeatingFieldSet2CountField |-> p.RepeatingFieldSet2CountField,
     IsMatchable |-> \E i \in DOMAIN p.Fields : p.Fields[i].Match # 0]

\* LoadCANBoatSchema: the error of Open or of the JSON decoder, else the schema
\* and the nil error of Open (the deferred Close assigns to a variable whose
\* value has been returned already)
LoadCANBoatSchema(doc) ==
    IF doc.kind = "missing" THEN [schema |-> <<>>, err |-> "open"]
    ELSE IF doc.kind = "malformed" THEN [schema |-> <<>>, err |-> "json"]
    ELSE [schema |-> [i \in DOMAIN doc.PGNs |-> UnmarshalJSON(doc.PGNs[i])],
          err |-> "nil"]

\* Field.Validate
FieldValidate(f) ==
    IF f.FieldType = "MMSI" /\ f.BitLength # 32
    THEN <<[rule |-> "MMSI bit length", ID |-> f.ID]>>
    ELSE IF f.FieldType = "DATE" /\ f.BitLength # 16
    THEN <<[rule |-> "DATE bit length", ID |-> f.ID]>>
    ELSE <<>>

\* the keys of the map `fields` of PGNs.Validate when field i is looked up:
\* the loop reads the map and never writes to it
ValidateSeenIDs(pgn, i) == {}

\* PGNs.Validate, the errors of fields 1..n of the first loop over pgn.Fields
RECURSIVE ValidateFieldIDs(_, _)
ValidateFieldIDs(pgn, n) ==
    IF n = 0 THEN <<>>
    ELSE LET f == pgn.Fields[n]
             duplicate == IF f.ID \in ValidateSeenIDs(pgn, n)
                          THEN <<[rule |-> "duplicate field ID", ID |-> f.ID]>>
                          ELSE <<>>
             count == IF pgn.RepeatingFieldSet1CountField = n /\ f.FieldType # "NUMBER"
                      THEN <<[rule |-> "RepeatingFieldSet1CountField", ID |-> f.ID]>>
                      ELSE IF pgn.RepeatingFieldSet2CountField = n /\ f.FieldType # "NUMBER"
                      THEN <<[rule |-> "RepeatingFieldSet2CountField", ID |-> f.ID]>>
                      ELSE <<>>
         IN  ValidateFieldIDs(pgn, n - 1) \o duplicate \o count

\* PGNs.Validate, the second loop over pgn.Fields
RECURSIVE ValidateFields(_, _)
ValidateFields(pgn, n) ==
    IF n = 0 THEN <<>>
    ELSE ValidateFields(pgn, n - 1) \o FieldValidate(pgn.Fields[n])

\* PGNs.Validate for one definition
ValidatePGN(pgn) ==
    LET start == IF /\ pgn.RepeatingFieldSet1StartField > 0
                    /\ pgn.RepeatingFieldSet1StartField <= pgn.RepeatingFieldSet1CountField
                 THEN <<[rule |-> "RepeatingFieldSet1StartField", ID |-> pgn.ID]>>
                 ELSE IF /\ pgn.RepeatingFieldSet2StartField > 0
                         /\ pgn.RepeatingFieldSet2StartField <= pgn.RepeatingFieldSet2CountField
                 THEN <<[rule |-> "RepeatingFieldSet2StartField", ID |-> pgn.ID]>>
                 ELSE <<>>
    IN  ValidateFieldIDs(pgn, Len(pgn.Fields)) \o start
            \o ValidateFields(pgn, Len(pgn.Fields))

\* PGNs.Validate: the errors of definitions 1..n; the empty list stands for nil
RECURSIVE Validate(_, _)
Validate(defs, n) ==
    IF n = 0 THEN <<>> ELSE Validate(defs, n - 1) \o ValidatePGN(defs[n])

\* a map with key k set to v, and a map without key k
MapSet(m, k, v) == [x \in DOMAIN m \cup {k} |-> IF x = k THEN v ELSE m[x]]

MapDelete(m, k) == [x \in DOMAIN m \ {k} |-> m[x]]

\* NewDecoder: the two maps after definitions 1..n of the schema
RECURSIVE NewDecoderMaps(_, _)
NewDecoderMaps(defs, n) ==
    IF n = 0 THEN [uniquePGNs |-> <<>>, nonUniqPGNs |-> <<>>]
    ELSE LET before  == NewDecoderMaps(defs, n - 1)
             uniq    == before.uniquePGNs
             nonUniq == before.nonUniqPGNs
             pgn     == defs[n]
         IN  IF pgn.PGN \notin DOMAIN uniq
             THEN [uniquePGNs |-> MapSet(uniq, pgn.PGN, pgn), nonUniqPGNs |-> nonUniq]
             ELSE LET group == IF pgn.PGN \in DOMAIN nonUniq
                               THEN nonUniq[pgn.PGN]
                               ELSE <<uniq[pgn.PGN]>>
                  IN  [uniquePGNs  |-> MapDelete(uniq, pgn.PGN),
                       nonUniqPGNs |-> MapSet(nonUniq, pgn.PGN, Append(group, pgn))]

NewDecoder(schema) == NewDecoderMaps(schema, Len(schema))

\* Field.IsMatch: a decoding error is no match
FieldIsMatch(f, data) ==
    LET decoded == DecodeVariableUint(data, f.BitOffset, f.BitLength)
    IN  decoded.err = "nil" /\ decoded.value = f.Match

\* PGN.IsMatch
PGNIsMatch(p, data) ==
    /\ p.IsMatchable
    /\ \A i \in DOMAIN p.Fields :
          p.Fields[i].Match # 0 => FieldIsMatch(p.Fields[i], data)

NotFound == [ok |-> FALSE, ID |-> "", err |-> "ErrDecodeUnknownPGN"]

Found(p) == [ok |-> TRUE, ID |-> p.ID, err |-> "nil"]

\* PGNs.Match: the first matchable definition that matches
Match(defs, data) ==
    LET hits == {i \in DOMAIN defs : defs[i].IsMatchable /\ PGNIsMatch(defs[i], data)}
    IN  IF hits = {} THEN NotFound
        ELSE Found(defs[CHOOSE i \in hits : \A j \in hits : i <= j])

\* Decoder.findPGN
findPGN(d, raw) ==
    IF raw.Header.PGN \in DOMAIN d.uniquePGNs
    THEN Found(d.uniquePGNs[raw.Header.PGN])
    ELSE IF raw.Header.PGN \notin DOMAIN d.nonUniqPGNs
              \/ Len(d.nonUniqPGNs[raw.Header.PGN]) = 0
    THEN NotFound
    ELSE Match(d.nonUniqPGNs[raw.Header.PGN], raw.Data)

\* Field.decodeNumber with a Resolution that is a whole number, which float64
\* holds exactly as it holds the integers of the model
decodeNumber(f, data, bitOffset) ==
    LET decoded == IF f.Signed
                   THEN DecodeVariableInt(data, bitOffset, f.BitLength)
                   ELSE DecodeVariableUint(data, bitOffset, f.BitLength)
        shifted == decoded.value + f.Offset
    IN  IF decoded.err # "nil"
        THEN [Type |-> "", Value |-> 0, err |-> decoded.err]
        ELSE IF f.Resolution = 1
        THEN [Type |-> IF f.Signed THEN "INT64" ELSE "UINT64", Value |-> shifted,
              err |-> "nil"]
        ELSE [Type |-> "FLOAT64", Value |-> shifted * f.Resolution, err |-> "nil"]

\* the NUMBER fields of one byte decodeNumber is called with; an unsigned field
\* with a negative Offset is left out, its sum wraps around modulo 2^64
NumberFields ==
    {f \in [Signed : BOOLEAN, Offset : {-1, 0, 1, 100}, Resolution : {1, 2, 10},
            BitOffset : {0}, BitLength : {8}] :
        f.Signed \/ f.Offset >= 0}

NumberData == {<<>>, <<0>>, <<1>>, <<5>>, <<126>>, <<200>>, <<250>>, <<255>>}

\* a field and the data it is about to decode
NumberInit ==
    \E f \in NumberFields, data \in NumberData :
        calc = [pc |-> "number", f |-> f, data |-> data, result |-> Nil]

\* f.decodeNumber(rawData, bitOffset)
DecodeNumberCall ==
    /\ calc.pc = "number"
    /\ calc' = [calc EXCEPT !.pc = "decoded",
                            !.result = decodeNumber(calc.f, calc.data, calc.f.BitOffset)]

\* the messages given to Decode: of the two PGNs of the schemas and of one
\* that no schema has
DecoderRaws ==
    {[Header |-> [PGN |-> p], Data |-> data] :
        p \in {126720, 127250, 59904},
        data \in {<<1, 3>>, <<1, 0>>, <<2, 0>>, <<9, 9>>, <<255, 3>>, <<1>>}}

\* a file on disk, not yet loaded
DecoderInit ==
    \E doc \in Documents :
        calc = [pc |-> "file", doc |-> doc, schema |-> <<>>, err |-> "nil",
                validated |-> FALSE, errs |-> <<>>, decoder |-> Nil, found |-> Nil]

\* schema, err := LoadCANBoatSchema(filesystem, path)
Load ==
    /\ calc.pc = "file"
    /\ LET loaded == LoadCANBoatSchema(calc.doc)
       IN  calc' = [calc EXCEPT !.pc = "loaded", !.schema = loaded.schema,
                                !.err = loaded.err]

\* schema.PGNs.Validate()
ValidateSchema ==
    /\ calc.pc = "loaded"
    /\ calc.err = "nil"
    /\ ~calc.validated
    /\ calc' = [calc EXCEPT !.validated = TRUE,
                            !.errs = Validate(calc.schema, Len(calc.schema))]

\* NewDecoder(schema)
NewDecoderCall ==
    /\ calc.pc = "loaded"
    /\ calc.err = "nil"
    /\ calc' = [calc EXCEPT !.pc = "decoder", !.decoder = NewDecoder(calc.schema)]

\* Decoder.Decode up to the definition it decodes the message with
DecodeCall(raw) ==
    /\ calc.pc = "decoder"
    /\ calc' = [calc EXCEPT !.found = [raw |-> raw, pgn |-> findPGN(calc.decoder, raw)]]

(***************************************************************************)
(* SocketCAN connection and device (package socketcan)                     *)
(***************************************************************************)
\* the can_id word of a frame read from the socket: the identifier in bits
\* 0..28 and the flags ERR (bit 29), RTR (bit 30) and EFF (bit 31)
CanWord(id, eff, rtr, err) == [id |-> id, eff |-> eff, rtr |-> rtr, err |-> err]

\* canID ^ canIDMask: the three flag bits are flipped.  Bit 31 is left out of
\* the sum, ParseCANID reads bits 0..28 only
XorCanIDMask(w) ==
    w.id + (IF w.err THEN 0 ELSE Pow2(29)) + (IF w.rtr THEN 0 ELSE Pow2(30))

\* what unix.Read on the socket gives: an errno, or the 16 bytes of a frame
Errno(e) == [kind |-> "errno", errno |-> e]

CanFrame(w, length, data) == [kind |-> "frame", word |-> w, length |-> length, data |-> data]

isContinuableSocketErr(e) == e \in {"EWOULDBLOCK", "EINTR"}

\* Connection.ReadRawFrame on what unix.Read gave at instant t
ReadRawFrame(got, t) ==
    IF got.kind = "errno"
    THEN [err |-> IF isContinuableSocketErr(got.errno) THEN "errReadTimeout" ELSE got.errno]
    ELSE IF got.word.rtr
    THEN [err |-> "read CAN remote transmission request frame"]
    ELSE IF got.word.err
    THEN [err |-> "read CAN error message frame"]
    ELSE [err |-> "nil",
          frame |-> RawFrame(t, ParseCANID(XorCanIDMask(got.word)), got.length,
                             [j \in 1..8 |-> IF j <= got.length THEN got.data[j] ELSE 0])]

\* the identifiers on the bus: PGN 59904 (ISO request) to all and PGN 130323
\* (a fast-packet PGN), both with priority 6 from address 35
IdISORequest == CanIdOf(6, 0, 234, 255, 35)

IdFast == CanIdOf(6, 1, 253, 19, 35)

\* what the socket gives to the reads of the model: the errnos, the ISO
\* request in the extended format and the 11-bit identifier 0x123 in the
\* standard format, each as a data frame, a remote request and an error
\* message, and the two frames of a fast-packet of 12 bytes
SocketReads ==
    {Errno(e) : e \in {"EWOULDBLOCK", "EINTR", "EIO"}}
    \cup {CanFrame(CanWord(IdISORequest, TRUE, rtr, err), 3, <<0, 238, 0>>) :
             rtr \in BOOLEAN, err \in BOOLEAN}
    \cup {CanFrame(CanWord(291, FALSE, rtr, err), 2, <<1, 2>>) :
             rtr \in BOOLEAN, err \in BOOLEAN}
    \cup {CanFrame(CanWord(IdFast, TRUE, FALSE, FALSE), 8, <<0, 12, 1, 2, 3, 4, 5, 6>>),
          CanFrame(CanWord(IdFast, TRUE, FALSE, FALSE), 8, <<1, 7, 8, 9, 10, 11, 12, 255>>)}

\* NewDevice: a ReceiveDataTimeout of zero or less becomes 5 seconds
NewDevice(configured) ==
    [pc |-> "idle",
     ReceiveDataTimeout |-> IF configured <= 0 THEN DefaultTimeoutMs ELSE configured]

SocketConfigs == {0, 100}

\* a device with a connection and a fast-packet assembler
SocketInit == \E configured \in SocketConfigs : sc = NewDevice(configured)

\* the time a read of the socket takes: the 50 ms of SetReadTimeout when
\* nothing arrives, less when a frame or a signal arrives
ReadBlockMs == 50

ReadTime(got) ==
    IF got.kind = "errno" /\ got.errno = "EWOULDBLOCK" THEN ReadBlockMs ELSE ReadBlockMs \div 2

\* Device.ReadRawMessage up to its loop: msg := nmea.RawMessage{}, start := now
SocketStart ==
    /\ sc.pc = "idle"
    /\ sc' = [pc |-> "reading", ReceiveDataTimeout |-> sc.ReceiveDataTimeout,
              start |-> now, last |-> now, cancelled |-> FALSE,
              read |-> Nil, err |-> "nil"]
    /\ msg' = FreshMessage
    /\ UNCHANGED <<inTransfer, pool, now, ret, tx>>

\* the owner of the context cancels it
SocketCancel ==
    /\ sc.pc = "reading"
    /\ ~sc.cancelled
    /\ sc' = [sc EXCEPT !.cancelled = TRUE]
    /\ UNCHANGED fpVars

\* one round of the loop of Device.ReadRawMessage: the context, SetReadTimeout,
\* ReadRawFrame, the idle check, Assemble
SocketRound(got, buf) ==
    /\ sc.pc = "reading"
    /\ now + ReadTime(got) <= sc.start + MaxSocketMs
    /\ IF sc.cancelled
       THEN /\ sc' = [sc EXCEPT !.pc = "returned", !.err = "context canceled"]
            /\ UNCHANGED fpVars
       ELSE LET t == now + ReadTime(got)
                r == ReadRawFrame(got, t)
            IN  /\ now' = t
                /\ IF r.err = "errReadTimeout"
                   THEN /\ sc' = [sc EXCEPT
                                    !.pc = IF t - sc.start > sc.ReceiveDataTimeout
                                           THEN "returned" ELSE "reading",
                                    !.err = IF t - sc.start > sc.ReceiveDataTimeout
                                            THEN r.err ELSE "nil",
                                    !.read = [got |-> got, result |-> r]]
                        /\ UNCHANGED <<inTransfer, pool, msg, ret, tx>>
                   ELSE IF r.err # "nil"
                   THEN /\ sc' = [sc EXCEPT !.pc = "returned", !.err = r.err,
                                            !.read = [got |-> got, result |-> r]]
                        /\ UNCHANGED <<inTransfer, pool, msg, ret, tx>>
                   ELSE LET a == Assemble(inTransfer, pool, r.frame, msg, t, buf)
                        IN  /\ inTransfer' = a.inTransfer
                            /\ pool' = a.pool
                            /\ msg' = a.msg
                            /\ ret' = [value |-> a.ret, by |-> 0]
                            /\ sc' = [sc EXCEPT
                                        !.pc = IF a.ret = "true" THEN "returned" ELSE "reading",
                                        !.last = t,
                                        !.read = [got |-> got, result |-> r]]
                            /\ UNCHANGED tx

(***************************************************************************)
(* The components that are at rest in most specifications                  *)
(***************************************************************************)
\* time.NewTicker has not been called
NoTimer == [running |-> FALSE, pending |-> FALSE, wrote |-> "none"]

ExtraIdle ==
    /\ timer = NoTimer
    /\ calc = Nil
    /\ sc = Nil
    /\ cli = Nil
    /\ ascii = Nil

(***************************************************************************)
(* AddressMapper.Run with its write ticker.  writeTimer is a time.Ticker:  *)
(* its channel holds one tick, and neither Stop nor Reset takes a tick     *)
(* out of the channel that was sent before the call.                       *)
(***************************************************************************)
\* Run up to its loop: time.NewTicker, and writeTimer.Stop() when writes are
\* disabled; 10 ms may have passed between the two
RunStartTicker ==
    /\ RunStart
    /\ \E early \in BOOLEAN :
          timer' = [running |-> writeEnabled,
                    pending |-> early /\ ~writeEnabled,
                    wrote   |-> "none"]

\* case writeEnabled := <-m.toggleWriteChan, with writeTimer.Reset or
\* writeTimer.Stop
RunToggleTicker(c) ==
    /\ RunToggle(c)
    /\ timer' = [timer EXCEPT !.running = callPc[c].value]

\* the runtime sends a tick to writeTimer.C unless a tick waits there
TickerFires ==
    /\ timer.running
    /\ ~timer.pending
    /\ timer' = [timer EXCEPT !.pending = TRUE]
    /\ UNCHANGED mapperVars

\* case <-writeTimer.C: Dequeue, continue on an empty queue, else
\* m.nmeaDevice.WriteRawMessage
RunTick ==
    /\ runPc = "loop"
    /\ timer.pending
    /\ IF buffer = <<>>
       THEN /\ timer' = [timer EXCEPT !.pending = FALSE]
            /\ UNCHANGED <<buffer, lastWrite>>
       ELSE /\ lastWrite' = Head(buffer)
            /\ buffer' = Tail(buffer)
            /\ timer' = [timer EXCEPT !.pending = FALSE,
                                      !.wrote = IF enabled THEN "enabled" ELSE "disabled"]
    /\ UNCHANGED <<mutex, writeEnabled, isRunning, requestsChan, knownNodes, address2node,
                   callPc, runPc, enabled, cancelled>>

(***************************************************************************)
(* Specifications                                                          *)
(***************************************************************************)
Init == FpInit /\ CanIdle /\ MapperInit /\ ReaderIdle /\ GatewayIdle /\ ProcessIdle /\ ExtraIdle

\* a step of one component leaves the others alone
FpOnly == UNCHANGED <<canVars, mapperVars, readerVars, gatewayVars, processed, extraVars>>

CanOnly == UNCHANGED <<fpVars, mapperVars, readerVars, gatewayVars, processed, extraVars>>

MapperOnly == UNCHANGED <<fpVars, canVars, readerVars, gatewayVars, processed, extraVars>>

ReaderOnly == UNCHANGED <<fpVars, canVars, mapperVars, gatewayVars, processed, extraVars>>

GatewayOnly == UNCHANGED <<fpVars, canVars, mapperVars, readerVars, processed, extraVars>>

\* the fast-packet assembler under the frames of the bus
Next ==
    \/ \E s \in Solo, key \in Keys, length \in Lengths : StartMessage(s, key, length) /\ FpOnly
    \/ \E s \in Solo, k \in 0..31, got \in PoolGet(pool) : DeliverFrame(s, k, got) /\ FpOnly
    \/ \E s \in Solo : EndMessage(s) /\ FpOnly
    \/ \E pgn \in {PGNISORequest, PGNNotListed}, length \in {3} :
          DeliverSingle(pgn, length) /\ FpOnly
    \/ \E t \in Instants : Tick(t) /\ FpOnly

Spec == Init /\ [][Next]_vars

\* the same bus with a caller that passes one message to every call for a
\* frame that is not assembled
NextInto ==
    \/ \E s \in Solo, key \in {<<35, 0>>}, length \in {12} :
          StartMessage(s, key, length) /\ FpOnly
    \/ \E s \in Solo, k \in 0..31, got \in PoolGet(pool) : DeliverFrame(s, k, got) /\ FpOnly
    \/ \E s \in Solo : EndMessage(s) /\ FpOnly
    \/ \E pgn \in {PGNISORequest, PGNNotListed}, length \in {0, 3, 8}, first \in {16, 32} :
          DeliverSingleInto(pgn, length, first) /\ FpOnly
    \/ \E t \in Instants : Tick(t) /\ FpOnly

SpecInto == Init /\ [][NextInto]_vars

\* the same bus with frames that are too short for a fast-packet among them
NextShort ==
    \/ \E s \in Solo, key \in Keys, length \in Lengths : StartMessage(s, key, length) /\ FpOnly
    \/ \E s \in Solo, k \in 0..31, got \in PoolGet(pool) : DeliverFrame(s, k, got) /\ FpOnly
    \/ \E s \in Solo : EndMessage(s) /\ FpOnly
    \/ \E key \in Keys, got \in PoolGet(pool) : DeliverShort(key, got) /\ FpOnly
    \/ \E t \in Instants : Tick(t) /\ FpOnly

SpecShort == Init /\ [][NextShort]_vars

\* two senders transmit one message each at once: their frames reach Assemble
\* interleaved in any order, the keys differ in the source or in the
\* sequence tag
NextPair ==
    \/ \E s \in Senders, key \in Keys, length \in Lengths :
          StartMessage(s, key, length) /\ FpOnly
    \/ \E s \in Senders, k \in 0..31, got \in PoolGet(pool) : DeliverFrame(s, k, got) /\ FpOnly

SpecPair == Init /\ [][NextPair]_vars

\* a sender that gives up messages and starts others under another key
\* while time passes
Abandoner == {2}

NextAbandon ==
    \/ \E s \in Abandoner, key \in Keys, length \in {12} :
          StartMessage(s, key, length) /\ FpOnly
    \/ \E s \in Abandoner, k \in 0..31, got \in PoolGet(pool) :
          DeliverFrame(s, k, got) /\ FpOnly
    \/ \E s \in Abandoner : EndMessage(s) /\ FpOnly
    \/ \E t \in Instants : Tick(t) /\ FpOnly

SpecAbandon == Init /\ [][NextAbandon]_vars

\* the codec on the identifiers of the model
InitCan == FpInit /\ CanInit /\ MapperInit /\ ReaderIdle /\ GatewayIdle /\ ProcessIdle /\ ExtraIdle

NextCan ==
    \/ CanParse /\ CanOnly
    \/ CanEncode /\ CanOnly

SpecCan == InitCan /\ [][NextCan]_vars

\* one goroutine feeds the mapper with what it reads from the bus; Run is
\* not started
NextClaims ==
    \/ \E raw \in Claims \cup ProductInfos : Process("a", raw) /\ MapperOnly
    \/ ToggleWrite("a") /\ MapperOnly

SpecClaims == Init /\ [][NextClaims]_vars

\* the same with the caller's view of every Process call
ProcessOnly == UNCHANGED <<fpVars, canVars, readerVars, gatewayVars, extraVars>>

NextProcess ==
    \/ \E raw \in Claims \cup ProductInfos : ProcessCall("a", raw) /\ ProcessOnly
    \/ ToggleWrite("a") /\ UNCHANGED processed /\ ProcessOnly

SpecProcess == Init /\ [][NextProcess]_vars

\* Run, its context, and the goroutines that call the mapper meanwhile
NextMapper ==
    \/ \E c \in Callers : ToggleWrite(c) /\ MapperOnly
    \/ \E c \in Callers : BroadcastIsoAddressClaimRequest(c) /\ MapperOnly
    \/ \E c \in Callers : CompleteSend(c) /\ MapperOnly
    \/ \E c \in Callers, raw \in RunClaims : Process(c, raw) /\ MapperOnly
    \/ RunStart /\ MapperOnly
    \/ \E c \in Callers : RunToggle(c) /\ MapperOnly
    \/ RunRequest /\ MapperOnly
    \/ RunWrite /\ MapperOnly
    \/ RunDone /\ MapperOnly
    \/ RunDeferred /\ MapperOnly
    \/ Cancel /\ MapperOnly

SpecMapper == Init /\ [][NextMapper]_vars

\* Run with its ticker, and one goroutine that calls the mapper meanwhile
TickerOnly == UNCHANGED <<fpVars, canVars, readerVars, gatewayVars, processed, sc,
                          cli, ascii>>

\* case msg, ok := <-m.requestsChan, with what buffer.Enqueue returned
RunRequestTicker ==
    /\ RunRequest
    /\ calc' = IF enabled THEN [ok |-> Len(buffer) # QueueSize] ELSE calc

NextTicker ==
    \/ ToggleWrite("a") /\ UNCHANGED <<timer, calc>> /\ TickerOnly
    \/ BroadcastIsoAddressClaimRequest("a") /\ UNCHANGED <<timer, calc>> /\ TickerOnly
    \/ CompleteSend("a") /\ UNCHANGED <<timer, calc>> /\ TickerOnly
    \/ \E raw \in RunClaims : Process("a", raw) /\ UNCHANGED <<timer, calc>> /\ TickerOnly
    \/ RunStartTicker /\ UNCHANGED calc /\ TickerOnly
    \/ RunToggleTicker("a") /\ UNCHANGED calc /\ TickerOnly
    \/ RunRequestTicker /\ UNCHANGED timer /\ TickerOnly
    \/ TickerFires /\ UNCHANGED calc /\ TickerOnly
    \/ RunTick /\ UNCHANGED calc /\ TickerOnly
    \/ RunDone /\ UNCHANGED <<timer, calc>> /\ TickerOnly
    \/ RunDeferred /\ UNCHANGED <<timer, calc>> /\ TickerOnly
    \/ Cancel /\ UNCHANGED <<timer, calc>> /\ TickerOnly

SpecTicker == Init /\ [][NextTicker]_vars

\* a schema file that is loaded, validated and given to a decoder
DecoderOnly == UNCHANGED <<fpVars, canVars, mapperVars, readerVars, gatewayVars,
                           processed, timer, sc, cli, ascii>>

InitDecoder ==
    /\ FpInit /\ CanIdle /\ MapperInit /\ ReaderIdle /\ GatewayIdle /\ ProcessIdle
    /\ timer = NoTimer /\ sc = Nil /\ cli = Nil /\ ascii = Nil
    /\ DecoderInit

NextDecoder ==
    \/ Load /\ DecoderOnly
    \/ ValidateSchema /\ DecoderOnly
    \/ NewDecoderCall /\ DecoderOnly
    \/ \E raw \in DecoderRaws : DecodeCall(raw) /\ DecoderOnly

SpecDecoder == InitDecoder /\ [][NextDecoder]_vars

\* decodeNumber on the fields and the data of the model
InitNumber ==
    /\ FpInit /\ CanIdle /\ MapperInit /\ ReaderIdle /\ GatewayIdle /\ ProcessIdle
    /\ timer = NoTimer /\ sc = Nil /\ cli = Nil /\ ascii = Nil
    /\ NumberInit

NextNumber == DecodeNumberCall /\ DecoderOnly

SpecNumber == InitNumber /\ [][NextNumber]_vars

\* one ReadRawMessage call of a SocketCAN device
SocketOnly == UNCHANGED <<canVars, mapperVars, readerVars, gatewayVars, processed,
                          timer, calc, cli, ascii>>

InitSocket ==
    /\ FpInit /\ CanIdle /\ MapperInit /\ ReaderIdle /\ GatewayIdle /\ ProcessIdle
    /\ timer = NoTimer /\ calc = Nil /\ cli = Nil /\ ascii = Nil
    /\ SocketInit

NextSocket ==
    \/ SocketStart /\ SocketOnly
    \/ SocketCancel /\ SocketOnly
    \/ \E got \in SocketReads, buf \in PoolGet(pool) : SocketRound(got, buf) /\ SocketOnly

SpecSocket == InitSocket /\ [][NextSocket]_vars

\* a ready case of the select in Run is taken in the end, a blocked channel
\* send goes through once it can, and a goroutine waiting in Lock gets the
\* mutex if it is free again and again
MapperFairness ==
    /\ WF_vars(RunRequest /\ MapperOnly)
    /\ WF_vars(RunWrite /\ MapperOnly)
    /\ WF_vars(RunDone /\ MapperOnly)
    /\ SF_vars(RunDeferred /\ MapperOnly)
    /\ \A c \in Callers :
          /\ WF_vars(RunToggle(c) /\ MapperOnly)
          /\ WF_vars(CompleteSend(c) /\ MapperOnly)

SpecMapperFair == Init /\ [][NextMapper]_vars /\ MapperFairness

\* the binary reader on the streams of the model
InitReader == FpInit /\ CanIdle /\ MapperInit /\ ReaderInit /\ GatewayIdle /\ ProcessIdle /\ ExtraIdle

NextReader == ReadByte /\ ReaderOnly

SpecReader == InitReader /\ [][NextReader]_vars

\* the binary reader on single frames with and without a valid checksum
InitCrc == FpInit /\ CanIdle /\ MapperInit /\ CrcInit /\ GatewayIdle /\ ProcessIdle /\ ExtraIdle

SpecCrc == InitCrc /\ [][NextReader]_vars

\* a caller writes messages to a gateway whose device may refuse bytes
NextWriter ==
    \/ \E m \in WriteMessages, isN2KWriter \in BOOLEAN :
          WriteRawMessage(m, isN2KWriter) /\ GatewayOnly
    \/ \E n \in 0..32, e \in {"nil", "EAGAIN", "EIO"} :
          WriteTurn([n |-> n, err |-> e]) /\ GatewayOnly
    \/ CancelCtx /\ GatewayOnly

SpecWriter == Init /\ [][NextWriter]_vars

\* a caller reads from a gateway that falls silent, and may cancel
SilentOnly == UNCHANGED <<fpVars, canVars, mapperVars, processed, extraVars>>

InitSilent == FpInit /\ CanIdle /\ MapperInit /\ SilentInit /\ GatewayIdle /\ ProcessIdle /\ ExtraIdle

NextSilent ==
    \/ \E configured \in Configs : StartRead(configured) /\ SilentOnly
    \/ \E o \in {"data", "EOF", "deadline", "EIO"}, dt \in ReadSteps :
          ReadTurn(o, dt) /\ SilentOnly
    \/ CancelCtx /\ UNCHANGED <<stream, rd, results>> /\ SilentOnly

SpecSilent == InitSilent /\ [][NextSilent]_vars

(***************************************************************************)
(* Properties of the fast-packet assembler                                 *)
(***************************************************************************)
\* sender s has delivered every frame of its message exactly once, in some
\* order, with no time passing and no older sequence of its key in the list
AllFramesFedOnce(s) ==
    /\ tx[s].active
    /\ tx[s].clean
    /\ tx[s].timely
    /\ tx[s].sent = 0..(FramesOf(tx[s].len) - 1)
    /\ tx[s].n = FramesOf(tx[s].len)

\* C1: when every frame of a sliced payload of length L has been fed to
\* Assemble once, in any order, Assemble has returned true exactly once and
\* the message it yielded carries exactly the L payload bytes.
C1_AllFramesYieldPayloadOnce ==
    \A s \in Solo :
        AllFramesFedOnce(s) =>
            /\ tx[s].yields = 1
            /\ ret.by = s => (ret.value = "true" /\ msg.Data = Payload(s, tx[s].len))

\* C4: once frame 0 has declared the length L, the complete mask of the
\* sequence is (1 << n) - 1 with n = 1 + ceil((L - 6) / 7), n = 1 for L <= 6.
C4_CompleteMaskIsCeil ==
    \A i \in 1..Len(inTransfer) :
        0 \in inTransfer[i].receivedFramesMask =>
            inTransfer[i].completeFramesMask = 0..(FramesOf(inTransfer[i].length) - 1)

\* the frame k of sender s meets a sequence of its key whose last frame is
\* more than 750 ms old
StaleHit(s, k) ==
    LET hit == Matches(inTransfer, FrameOf(s, now, k))
    IN  /\ hit # {}
        /\ now - inTransfer[Max(hit)].lastReceivedFrameTime > StaleMs

\* C5: a frame that arrives more than 750 ms after the last frame of the
\* in-flight sequence of its (source, PGN, tag) is appended to a reset
\* sequence: afterwards the sequence holds that frame alone, or it was a
\* complete one-frame message.
C5_StaleSequenceIsReset ==
    [][\A s \in Solo, k \in 0..31, got \in PoolGet(pool) :
          (DeliverFrame(s, k, got) /\ StaleHit(s, k)) =>
              LET idx == Max(Matches(inTransfer, FrameOf(s, now, k)))
              IN  IF ret'.value = "true"
                  THEN k = 0 /\ tx[s].len <= 6 /\ msg'.Data = Payload(s, tx[s].len)
                  ELSE /\ inTransfer'[idx].receivedFramesMask = {k}
                       /\ inTransfer'[idx].receivedFramesCount = 1
                       /\ inTransfer'[idx].lastReceivedFrameTime = now]_vars

\* a sequence was reset under a later frame: two frames of the message were
\* delivered, the sequence holds the one delivered after the 750 ms
C5_ResetHappened ==
    \E i \in 1..Len(inTransfer) :
        /\ tx[1].active
        /\ HasKey(inTransfer[i], tx[1].src, tx[1].tag)
        /\ Cardinality(tx[1].sent) = 2
        /\ tx[1].yields = 0
        /\ Cardinality(inTransfer[i].receivedFramesMask) = 1
        /\ inTransfer[i].lastReceivedFrameTime = T0 + StaleMs + 1

\* C9: the in-flight list never holds two sequences with the same
\* (source, PGN, sequence tag).
C9_OneSequencePerKey ==
    \A i, j \in 1..Len(inTransfer) :
        (/\ inTransfer[i].header.Source = inTransfer[j].header.Source
         /\ inTransfer[i].header.PGN = inTransfer[j].header.PGN
         /\ inTransfer[i].sequence = inTransfer[j].sequence) => i = j

\* the frame k of sender s meets a fresh sequence of its key that has
\* received frame k before
DuplicateHit(s, k) ==
    LET hit == Matches(inTransfer, FrameOf(s, now, k))
    IN  /\ hit # {}
        /\ now - inTransfer[Max(hit)].lastReceivedFrameTime <= StaleMs
        /\ k \in inTransfer[Max(hit)].receivedFramesMask

\* C10: a frame whose number is already in the received mask of its
\* in-flight sequence changes nothing: data, received mask, frame count and
\* last-frame time of the sequence, and the rest of the list, stay as they are.
C10_DuplicateChangesNothing ==
    [][\A s \in Solo, k \in 0..31, got \in PoolGet(pool) :
          (DeliverFrame(s, k, got) /\ DuplicateHit(s, k)) =>
              (inTransfer' = inTransfer /\ ret'.value = "false")]_vars

\* frame 1 of a two-frame message was delivered twice and nothing else
C10_DuplicateDelivered ==
    /\ tx[1].active
    /\ tx[1].clean
    /\ tx[1].len = 12
    /\ tx[1].sent = {1}
    /\ tx[1].n = 2
    /\ ret = [value |-> "false", by |-> 1]
    /\ \E i \in 1..Len(inTransfer) :
          /\ HasKey(inTransfer[i], tx[1].src, tx[1].tag)
          /\ inTransfer[i].receivedFramesMask = {1}
          /\ inTransfer[i].receivedFramesCount = 1

\* two messages with different keys are in transmission at once
BothTransmitting ==
    /\ \A s \in Senders : tx[s].active
    /\ <<tx[1].src, tx[1].tag>> # <<tx[2].src, tx[2].tag>>

\* C11: when the frames of two fast-packet messages that differ in source
\* or in sequence tag are interleaved in any order, each message is
\* reassembled on its own: once all its frames are fed it has been yielded
\* once, and what Assemble yields for it is its original payload.
C11_InterleavedMessagesBothYield ==
    BothTransmitting =>
        \A s \in Senders :
            /\ AllFramesFedOnce(s) => tx[s].yields = 1
            /\ (tx[s].clean /\ ret = [value |-> "true", by |-> s]) =>
                   /\ msg.Data = Payload(s, tx[s].len)
                   /\ msg.Header.Source = tx[s].src

\* the same for the payload lengths whose frame count Append gets right:
\* the two sequences never disturb one another
InterleavedYieldWhenCountRight ==
    BothTransmitting =>
        \A s \in Senders :
            /\ (AllFramesFedOnce(s) /\ FrameCount(tx[s].len) = FramesOf(tx[s].len)) =>
                   tx[s].yields = 1
            /\ (tx[s].clean /\ ret = [value |-> "true", by |-> s]) =>
                   /\ msg.Data = Payload(s, tx[s].len)
                   /\ msg.Header.Source = tx[s].src

\* both two-frame messages were fed frame by frame in turn, and both were
\* yielded
InterleavedBothYielded ==
    /\ BothTransmitting
    /\ \A s \in Senders : tx[s].len = 12 /\ AllFramesFedOnce(s) /\ tx[s].yields = 1

\* C12: a sequence that never completes is evicted once its last frame is
\* older than 750 ms: after Assemble has handled a fast-packet frame, the
\* in-flight list holds no sequence whose last frame is more than 750 ms old.
C12_AbandonedSequenceIsEvicted ==
    (ret.value # "none" /\ ret.by # 0) =>
        \A i \in 1..Len(inTransfer) : now - inTransfer[i].lastReceivedFrameTime <= StaleMs

\* what the code does keep: the sequence of the frame just handled is never
\* older than 750 ms, it was reset if it had been
HandledSequenceIsFresh ==
    (ret.value = "false" /\ ret.by # 0) =>
        \A i \in 1..Len(inTransfer) :
            HasKey(inTransfer[i], tx[ret.by].src, tx[ret.by].tag) =>
                now - inTransfer[i].lastReceivedFrameTime <= StaleMs

(***************************************************************************)
(* Properties of the CAN identifier codec                                  *)
(***************************************************************************)
\* C3: for every 29-bit identifier, Uint32 applied to the header ParseCANID
\* made of it returns the identifier.
C3_Uint32OfParseIsIdentity ==
    canPc = "encoded" => canOut = canID

\* the identifiers that survive the round trip: addressed ones, and broadcast
\* ones whose PS is 240 or more
CanRoundTripWhenPsHigh ==
    (canPc = "encoded" /\ (U8(canID \div Pow2(16)) < 240 \/ U8(canID \div Pow2(8)) >= 240))
        => canOut = canID

(***************************************************************************)
(* Properties of the address mapper                                        *)
(***************************************************************************)
\* C2: every occupied slot s holds a node whose Source is s, and no NAME
\* is held by more than one slot.
C2_SlotsAgreeWithNodes ==
    /\ \A s \in DOMAIN address2node :
          address2node[s].node # 0 => knownNodes[address2node[s].node].Source = s
    /\ \A s, t \in DOMAIN address2node :
          (address2node[s].node # 0 /\ address2node[s].node = address2node[t].node) => s = t

\* C6: no caller of Process or BroadcastIsoAddressClaimRequest is ever
\* blocked in its send into the request channel.
C6_SendNeverBlocks ==
    \A c \in Callers : callPc[c].pc # "requestSend"

\* C7: once the context is cancelled while Run is running, Run returns in
\* the end.
C7_RunReturnsAfterCancel ==
    (cancelled /\ runPc \in {"loop", "deferred"}) ~> (runPc = "returned")

\* the slot of the source of raw holds a node whose NAME is above the NAME
\* that raw claims
OccupiedByHigherName(raw) ==
    /\ raw.Header.Source \in DOMAIN address2node
    /\ address2node[raw.Header.Source].node # 0
    /\ LittleEndianUint64(raw.Data) < address2node[raw.Header.Source].node

\* C17: when an ISO Address Claim arrives for an occupied slot from a NAME
\* numerically less than the incumbent's NAME, the claiming node becomes the
\* owner of the slot and the source of the incumbent node is set to 254.
C17_LowerNameTakesSlot ==
    [][\A raw \in Claims :
          (Process("a", raw) /\ OccupiedByHigherName(raw)) =>
              LET source    == raw.Header.Source
                  NAME      == LittleEndianUint64(raw.Data)
                  incumbent == address2node[source].node
              IN  /\ address2node'[source].node = NAME
                  /\ knownNodes'[NAME].Source = source
                  /\ knownNodes'[incumbent].Source = AddressNull]_vars

\* NAME 2 holds slot 1 and NAME 257, which has no slot, is at the null address
C17_SlotTakenOver ==
    /\ 1 \in DOMAIN address2node
    /\ address2node[1].node = 2
    /\ knownNodes[2].Source = 1
    /\ 257 \in DOMAIN knownNodes
    /\ knownNodes[257].Source = AddressNull
    /\ \A s \in DOMAIN address2node : address2node[s].node # 257

\* C18: when a Product Info message arrives from a source whose slot holds a
\* node that has no validated Product Info yet, the Product Info of the node
\* is recorded and marked valid: after such a call the node has it.
C18_ProductInfoIsRecorded ==
    (/\ processed # Nil
     /\ processed.raw.Header.PGN = PGNProductInfo
     /\ processed.held # 0) =>
        knownNodes[processed.held].ValidProductInfo

\* what the code does: no node ever has validated Product Info
ProductInfoIsNeverValid ==
    \A n \in DOMAIN knownNodes : knownNodes[n].ValidName /\ ~knownNodes[n].ValidProductInfo

\* the request channel after the call has sent req, or the call blocked in
\* the send of req
RequestSent(req) ==
    \/ requestsChan' = Append(requestsChan, req) /\ callPc'["a"] = Idle
    \/ requestsChan' = requestsChan /\ callPc'["a"] = [pc |-> "requestSend", req |-> req]

NothingSent == requestsChan' = requestsChan /\ callPc'["a"] = Idle

\* a Product Info request was made for the slot of the source before
AlreadyRequested(source) ==
    /\ source \in DOMAIN address2node
    /\ address2node[source].productInfoRequested

C20_ReservedSourceChangesNothing ==
    [][\A raw \in Claims \cup ProductInfos :
          (Process("a", raw) /\ raw.Header.Source >= AddressNull) =>
              /\ knownNodes' = knownNodes
              /\ address2node' = address2node
              /\ ~isBusNodeChanged(raw)]_vars

\* what the code keeps for these sources: the slots
ReservedSourceKeepsSlots ==
    [][\A raw \in Claims \cup ProductInfos :
          (Process("a", raw) /\ raw.Header.Source >= AddressNull) =>
              address2node' = address2node]_vars

(***************************************************************************)
(* Properties of the binary reader                                         *)
(***************************************************************************)
\* C8: whatever bytes come ahead of it, the well-formed frame that starts
\* with the start marker is returned by ReadRawMessage: once the stream is
\* read to its end, the message of the frame is among the values returned.
C8_GoodFrameIsReturned ==
    stream = <<>> => \E i \in 1..Len(results) : results[i] = GoodMessage(now)

\* the first half of C8: the frame in progress is dropped, no byte of the
\* garbage ends up in a message that is returned
ReturnedMessagesAreGood ==
    \A i \in 1..Len(results) : results[i].kind = "msg" => results[i] = GoodMessage(now)

\* the unescaped bytes received between the start marker and the end marker
ReceivedBody == [i \in 1..rd.messageByteIndex |-> At(rd.message, i - 1)]

RECURSIVE ByteSum(_)
ByteSum(bytes) == IF bytes = <<>> THEN 0 ELSE Head(bytes) + ByteSum(Tail(bytes))

\* the call in progress returns a RawMessage in this step
ReturnsMessage ==
    /\ Len(results') = Len(results) + 1
    /\ results'[Len(results')].kind = "msg"

\* C13: ReadRawMessage never returns a RawMessage for a received frame of
\* one of the three binary formats whose command, length, data and checksum
\* bytes do not sum to 0 modulo 256.
C13_BadChecksumIsNeverReturned ==
    [][ReturnsMessage => ByteSum(ReceivedBody) % 256 = 0]_vars

\* the NGT and the RAW format are verified
ChecksumVerifiedForNgtAndRaw ==
    [][(ReturnsMessage /\ At(rd.message, 0) \notin {cmdN2KMessageReceived, cmdN2KMessageSend})
          => ByteSum(ReceivedBody) % 256 = 0]_vars

(***************************************************************************)
(* Properties of the gateway calls                                         *)
(***************************************************************************)
\* C14: a write whose Write attempts all fail with EAGAIN is retried at most
\* 5 times, with a pause of 250 ms after every failed attempt but the last,
\* and then returns the retry error.
C14_EagainWriteEndsInError ==
    (wr.pc = "returned" /\ wr.onlyEagain) =>
        /\ wr.err = "retry count reached"
        /\ wr.writes - 1 <= maxRetry
        /\ wr.paused = RetryPauseMs * (wr.writes - 1)

\* the same when no failed attempt reports any byte as written: the sixth
\* attempt ends the call with the retry error
EagainWithoutBytesEndsInError ==
    (wr.pc = "returned" /\ wr.onlyEagain /\ ~wr.progress) =>
        /\ wr.err = "retry count reached"
        /\ wr.writes = maxRetry + 1
        /\ wr.paused = RetryPauseMs * maxRetry

\* no call makes more than 1 + 5 attempts, and it pauses between any two
WritesAreBounded ==
    wr.pc # "idle" =>
        /\ wr.writes <= maxRetry + 1
        /\ wr.paused = RetryPauseMs * (IF wr.pc = "returned" THEN wr.writes - 1 ELSE wr.writes)

\* C15: once the context is cancelled, a gateway call in progress goes on
\* with nothing but its return, and what it returns is the context's error:
\* WriteRawMessage makes no further Write attempt and no further pause.
C15_CancelledCallReturnsCtxError ==
    [][(ctxDone /\ wr.pc = "loop" /\ wr' # wr) =>
          /\ wr'.pc = "returned"
          /\ wr'.err = "context canceled"
          /\ wr'.writes = wr.writes
          /\ wr'.paused = wr.paused]_vars

\* the same for BinaryFormatDevice.ReadRawMessage: it looks at the context
\* before every Read
CancelledReadReturnsCtxError ==
    [][(ctxDone /\ rc.pc = "loop" /\ rc' # rc) =>
          /\ rc'.pc = "returned"
          /\ rc'.err = "context canceled"
          /\ rc'.reads = rc.reads]_vars

\* the timeout the caller asked for: its own value, 5 s when it set none
ExpectedTimeout(configured) == IF configured = 0 THEN DefaultTimeoutMs ELSE configured

\* C16: when a turn of ReadRawMessage finds that the gateway has delivered
\* no data for longer than the ReceiveDataTimeout the caller configured (5 s
\* by default), the call returns instead of waiting on.
C16_SilentGatewayEndsRead ==
    (rc.pc = "loop" /\ rc.reads > 0) =>
        rc.clock - rc.lastReadWithDataTime <= ExpectedTimeout(rc.configured)

\* what the code keeps: a Read that ends with io.EOF more than 5 s after the
\* last data ends the call, whatever the caller configured above 0
EofEndsReadAfterFiveSeconds ==
    (rc.pc = "loop" /\ rc.lastRead = "EOF" /\ rc.configured > 0) =>
        rc.clock - rc.lastReadWithDataTime <= DefaultTimeoutMs

(***************************************************************************)
(* C21: while writes are disabled, the run loop of the mapper writes no    *)
(* message to the device: the value of enabled at every write of the loop  *)
(* is true.                                                                *)
(***************************************************************************)
C21_NoWriteWhileDisabled == timer.wrote # "disabled"

\* the part of it that the loop keeps: a request received while writes are
\* disabled does not reach the queue
DisabledRequestIsDiscarded ==
    [][(RunRequestTicker /\ ~enabled) => buffer' = buffer]_vars

(***************************************************************************)
(* C22: the queue of the run loop never holds more than its capacity, and  *)
(* an Enqueue on a full queue is dropped: it returns false and leaves the  *)
(* queued messages and their order as they were.                           *)
(***************************************************************************)
C22_QueueIsBounded ==
    /\ [](Len(buffer) <= QueueSize)
    /\ [][(RunRequestTicker /\ enabled /\ Len(buffer) = QueueSize)
            => (buffer' = buffer /\ ~calc'.ok)]_vars

\* an Enqueue was dropped on a full queue that holds two different requests
OverflowDropped ==
    /\ calc # Nil
    /\ ~calc.ok
    /\ Len(buffer) = QueueSize
    /\ buffer[1] # buffer[2]

\* the places of the definitions of PGN number n in the loaded schema
DefinitionsOf(n) == {i \in DOMAIN calc.schema : calc.schema[i].PGN = n}

\* every field of definition p with a Match literal extracts it from the data
EveryLiteralExtracted(p, data) ==
    \A i \in DOMAIN p.Fields :
        p.Fields[i].Match # 0 => FieldIsMatch(p.Fields[i], data)

\* the definition the first-match rule names for a message, if any
FirstMatch(raw) ==
    LET hits == {i \in DefinitionsOf(raw.Header.PGN) :
                    EveryLiteralExtracted(calc.schema[i], raw.Data)}
    IN  IF hits = {} THEN NotFound
        ELSE Found(calc.schema[CHOOSE i \in hits : \A j \in hits : i <= j])

(***************************************************************************)
(* C23: for a message whose PGN number has several definitions in the      *)
(* schema, Decode uses the first definition in schema order whose fields   *)
(* with a Match literal all extract their literal from the payload.        *)
(***************************************************************************)
C23_FirstMatchingDefinitionIsUsed ==
    (calc # Nil /\ calc.found # Nil
        /\ Cardinality(DefinitionsOf(calc.found.raw.Header.PGN)) >= 2)
    => calc.found.pgn = FirstMatch(calc.found.raw)

\* the same for a PGN number with exactly two definitions that both declare
\* a Match literal
FirstMatchOfTwoMatchableIsUsed ==
    (calc # Nil /\ calc.found # Nil
        /\ Cardinality(DefinitionsOf(calc.found.raw.Header.PGN)) = 2
        /\ \A i \in DefinitionsOf(calc.found.raw.Header.PGN) : calc.schema[i].IsMatchable)
    => calc.found.pgn = FirstMatch(calc.found.raw)

\* the same for the definitions that declare a Match literal, whatever their
\* number: a definition without a literal is left out of the first-match rule
FirstMatchableDefinitionIsUsed ==
    (calc # Nil /\ calc.found # Nil
        /\ Cardinality(DefinitionsOf(calc.found.raw.Header.PGN)) >= 2
        /\ \A i \in DefinitionsOf(calc.found.raw.Header.PGN) : calc.schema[i].IsMatchable)
    => calc.found.pgn = FirstMatch(calc.found.raw)

(***************************************************************************)
(* C24: after NewDecoder a PGN number with one definition is a key of the  *)
(* unique map only, and a PGN number with two or more definitions is a key *)
(* of the non-unique map only, whose list holds all its definitions.       *)
(***************************************************************************)
C24_MapsSplitThePGNs ==
    (calc # Nil /\ calc.pc = "decoder") =>
        \A i \in DOMAIN calc.schema :
            LET n       == calc.schema[i].PGN
                uniq    == calc.decoder.uniquePGNs
                nonUniq == calc.decoder.nonUniqPGNs
            IN  IF Cardinality(DefinitionsOf(n)) = 1
                THEN n \in DOMAIN uniq /\ n \notin DOMAIN nonUniq
                ELSE /\ n \notin DOMAIN uniq
                     /\ n \in DOMAIN nonUniq
                     /\ \A j \in DefinitionsOf(n) :
                           \E k \in DOMAIN nonUniq[n] : nonUniq[n][k] = calc.schema[j]

\* the same for the PGN numbers with at most two definitions
MapsSplitThePGNsUpToTwo ==
    (calc # Nil /\ calc.pc = "decoder") =>
        \A i \in DOMAIN calc.schema :
            LET n       == calc.schema[i].PGN
                uniq    == calc.decoder.uniquePGNs
                nonUniq == calc.decoder.nonUniqPGNs
            IN  /\ Cardinality(DefinitionsOf(n)) = 1
                     => (n \in DOMAIN uniq /\ n \notin DOMAIN nonUniq)
                /\ Cardinality(DefinitionsOf(n)) = 2
                     => (n \notin DOMAIN uniq /\ n \in DOMAIN nonUniq
                         /\ Len(nonUniq[n]) = 2)

\* definition p has two fields with the same field ID
HasDuplicateFieldID(p) ==
    \E i, j \in DOMAIN p.Fields : i # j /\ p.Fields[i].ID = p.Fields[j].ID

(***************************************************************************)
(* C25: validation reports an error for every definition that has two      *)
(* fields with the same field ID, and loading a schema with such a         *)
(* definition fails.                                                       *)
(***************************************************************************)
C25_DuplicateFieldIDIsRejected ==
    (calc # Nil /\ calc.pc # "file"
        /\ \E i \in DOMAIN calc.schema : HasDuplicateFieldID(calc.schema[i]))
    => /\ calc.err # "nil"
       /\ calc.validated =>
             \E k \in DOMAIN calc.errs : calc.errs[k].rule = "duplicate field ID"

\* what validation does report: a field of type MMSI that is not 32 bits long
MMSILengthIsReported ==
    (calc # Nil /\ calc.validated
        /\ \E i \in DOMAIN calc.schema : \E j \in DOMAIN calc.schema[i].Fields :
              calc.schema[i].Fields[j].FieldType = "MMSI")
    => \E k \in DOMAIN calc.errs : calc.errs[k].rule = "MMSI bit length"

\* and validation never reports a duplicate field ID
DuplicateFieldIDIsNeverReported ==
    (calc # Nil /\ calc.pc # "file") =>
        \A k \in DOMAIN calc.errs : calc.errs[k].rule # "duplicate field ID"

\* the raw integer of the field of the call
RawInteger ==
    IF calc.f.Signed
    THEN DecodeVariableInt(calc.data, calc.f.BitOffset, calc.f.BitLength).value
    ELSE DecodeVariableUint(calc.data, calc.f.BitOffset, calc.f.BitLength).value

(***************************************************************************)
(* C26: the decoded value of a NUMBER field with offset o and resolution r *)
(* is o + x * r for the raw integer x.                                     *)
(***************************************************************************)
C26_NumberIsOffsetPlusScaled ==
    (calc # Nil /\ calc.pc = "decoded" /\ calc.result.err = "nil")
    => calc.result.Value = calc.f.Offset + RawInteger * calc.f.Resolution

\* what the code computes: (x + o) * r, which is the same as o + x * r for a
\* field without offset or with resolution 1
NumberIsShiftedThenScaled ==
    (calc # Nil /\ calc.pc = "decoded" /\ calc.result.err = "nil")
    => /\ calc.result.Value = (RawInteger + calc.f.Offset) * calc.f.Resolution
       /\ (calc.f.Offset = 0 \/ calc.f.Resolution = 1)
             => calc.result.Value = calc.f.Offset + RawInteger * calc.f.Resolution

(***************************************************************************)
(* C27: for a frame of a PGN that is not a configured fast-packet PGN,     *)
(* Assemble returns true and the output message has the time and the       *)
(* header of the frame and exactly the first Length bytes of the frame as  *)
(* its Data, whatever the message held before the call.                    *)
(***************************************************************************)
C27_SingleFramePassesThrough ==
    ("frame" \in DOMAIN ret) =>
        /\ ret.value = "true"
        /\ msg.Time = ret.frame.Time
        /\ msg.Header = ret.frame.Header
        /\ msg.Data = SubSeq(ret.frame.Data, 1, ret.frame.Length)

\* what holds whatever the message held: the time, the header and the first
\* Length bytes, in a Data that is at least Length bytes long
SingleFrameIsAPrefix ==
    ("frame" \in DOMAIN ret) =>
        /\ ret.value = "true"
        /\ msg.Time = ret.frame.Time
        /\ msg.Header = ret.frame.Header
        /\ Len(msg.Data) >= ret.frame.Length
        /\ SubSeq(msg.Data, 1, ret.frame.Length)
              = SubSeq(ret.frame.Data, 1, ret.frame.Length)

\* the latest ReadRawFrame call of the device read a frame from the socket
FrameRead == sc # Nil /\ sc.pc # "idle" /\ sc.read # Nil /\ sc.read.got.kind = "frame"

(***************************************************************************)
(* C28: ReadRawFrame returns a frame only for a data frame in the extended *)
(* format: a frame with the RTR or the ERR flag, and a frame without the   *)
(* EFF flag, make the read fail.                                           *)
(***************************************************************************)
C28_OnlyExtendedDataFramesAreReturned ==
    FrameRead =>
        (sc.read.result.err = "nil"
            <=> (sc.read.got.word.eff /\ ~sc.read.got.word.rtr /\ ~sc.read.got.word.err))

\* the flags that are tested: a frame is returned exactly when neither RTR nor
\* ERR is set, whatever the EFF flag
RtrAndErrFramesFail ==
    FrameRead =>
        (sc.read.result.err = "nil"
            <=> (~sc.read.got.word.rtr /\ ~sc.read.got.word.err))

(***************************************************************************)
(* C29: ReadRawMessage returns the read-timeout error only when no frame   *)
(* has been received for longer than ReceiveDataTimeout: every frame       *)
(* received during the call restarts the idle period.                      *)
(***************************************************************************)
C29_TimeoutOnlyAfterIdlePeriod ==
    (sc # Nil /\ sc.pc = "returned" /\ sc.err = "errReadTimeout")
    => now - sc.last > sc.ReceiveDataTimeout

\* the period that is measured starts with the call
TimeoutOnlyAfterPeriodSinceStart ==
    (sc # Nil /\ sc.pc = "returned" /\ sc.err = "errReadTimeout")
    => now - sc.start > sc.ReceiveDataTimeout

(***************************************************************************)
(* C30: NodesInUseBySource returns only nodes with a valid source address  *)
(* (0..253): a node whose source is 254 is never in the result.            *)
(***************************************************************************)
C30_OnlyAssignedNodesAreInUse ==
    \A m \in NodesInUseBySource : \A s \in DOMAIN m : s < AddressNull

\* what the call returns: every known node, under its source
EveryKnownNodeIsInUse ==
    /\ NodesInUse = DOMAIN knownNodes
    /\ \A m \in NodesInUseBySource :
          DOMAIN m = {knownNodes[name].Source : name \in DOMAIN knownNodes}


(***************************************************************************)
(* The read loop of the command line tool: throttling by PGN and source    *)
(***************************************************************************)
\* values of the flag --throttle, in milliseconds (0 is the flag's default)
Throttles == {0, 100}

\* PGN and source of the messages the device hands to the loop
ThrottleHeaders == {<<PGNNotListed, 0>>, <<PGNNotListed, 4>>, <<PGNFast, 1>>}

\* time between two messages read from the device, in milliseconds
ReadGaps == {0, 50, 100}

\* the read loop is followed until this much time has passed
MaxThrottleMs == 200

\* tKey := uint64(rawMessage.Header.PGN)<<2 | uint64(rawMessage.Header.Source)
tKey(pgn, source) == BitOr(pgn * 4, source)

NoMessage == [pgn |-> 0, source |-> 0, time |-> 0, emitted |-> FALSE, read |-> FALSE]

\* throttled := map[uint64]time.Time{} and the loop before its first read
\* (emittedAt, since and sinceKey are history: when a tuple was emitted last,
\* how long before the message read now its own tuple was emitted, and how
\* long before it a tuple with its key was emitted; -1 stands for never)
ThrottleInit ==
    \E d \in Throttles :
        cli = [throttle |-> d, throttled |-> <<>>, last |-> NoMessage,
               emittedAt |-> <<>>, since |-> -1, sinceKey |-> -1]

\* one turn of the loop for a message that passed the filters: the throttle
\* block, then the message is decoded and printed
ThrottleTurn(pgn, source, gap) ==
    LET t   == now + gap
        key == tKey(pgn, source)
        ok  == key \in DOMAIN cli.throttled
        tup == <<pgn, source>>
        skip == cli.throttle > 0 /\ ok /\ ~(t > cli.throttled[key])
        before == IF tup \in DOMAIN cli.emittedAt THEN t - cli.emittedAt[tup] ELSE -1
        same == {x \in DOMAIN cli.emittedAt : tKey(x[1], x[2]) = key}
        beforeKey == IF same = {} THEN -1
                     ELSE t - cli.emittedAt[CHOOSE x \in same :
                                  \A y \in same : cli.emittedAt[y] <= cli.emittedAt[x]]
    IN  /\ t <= T0 + MaxThrottleMs
        /\ now' = t
        /\ cli' = [cli EXCEPT
                !.throttled = IF cli.throttle > 0 /\ ~skip
                              THEN MapSet(@, key, t + cli.throttle) ELSE @,
                !.last = [pgn |-> pgn, source |-> source, time |-> t,
                          emitted |-> ~skip, read |-> TRUE],
                !.since = before,
                !.sinceKey = beforeKey,
                !.emittedAt = IF skip THEN @ ELSE MapSet(@, tup, t)]

ThrottleOnly == UNCHANGED <<inTransfer, pool, msg, ret, tx, canVars, mapperVars, readerVars,
                            gatewayVars, processed, timer, calc, sc, ascii>>

InitThrottle ==
    /\ FpInit /\ CanIdle /\ MapperInit /\ ReaderIdle /\ GatewayIdle /\ ProcessIdle
    /\ timer = NoTimer /\ calc = Nil /\ sc = Nil /\ ascii = Nil
    /\ ThrottleInit

NextThrottle ==
    \E h \in ThrottleHeaders, gap \in ReadGaps :
        ThrottleTurn(h[1], h[2], gap) /\ ThrottleOnly

SpecThrottle == InitThrottle /\ [][NextThrottle]_vars

\* C31: with --throttle d a message is suppressed only if a message with the
\* same PGN and the same source was emitted less than d earlier (messages of
\* other (PGN, source) tuples never throttle it)
C31_SuppressedOnlyBySameTuple ==
    (cli.last.read /\ ~cli.last.emitted) =>
        (cli.since >= 0 /\ cli.since < cli.throttle)

\* what the code does instead: a message is suppressed exactly when a message
\* with the same key PGN<<2|source was emitted at most d earlier
SuppressedBySameKey ==
    cli.last.read =>
        (~cli.last.emitted <=>
            (cli.throttle > 0 /\ cli.sinceKey >= 0 /\ cli.sinceKey <= cli.throttle))

\* a message suppressed although its tuple was never emitted
SuppressedByOtherTuple == cli.last.read /\ ~cli.last.emitted /\ cli.since = -1

\* a message suppressed exactly d after the last one of its own tuple
SuppressedAtThePeriod ==
    cli.last.read /\ ~cli.last.emitted /\ cli.throttle > 0 /\ cli.since = cli.throttle

\* C32: ToggleWrite always returns: a call blocked in its send on the toggle
\* channel (with the mutex held) gets its value received and returns in the
\* end, also when the context of Run is cancelled meanwhile
C32_ToggleWriteReturns ==
    \A c \in Callers : (callPc[c].pc = "toggleSend") ~> (callPc[c].pc = "idle")

\* ToggleWrite blocked in its send, the mutex held, after Run has left its loop
ToggleBlockedAfterRunLeft ==
    \E c \in Callers : callPc[c].pc = "toggleSend" /\ mutex = c /\ runPc = "deferred"

\* while Run is in its loop and its context is not cancelled, the send of
\* ToggleWrite is received
ToggleWriteReturnsUnlessCancelled ==
    \A c \in Callers : (callPc[c].pc = "toggleSend") ~> (callPc[c].pc = "idle" \/ cancelled)


(***************************************************************************)
(* A second call of Run while the mapper is running                        *)
(***************************************************************************)
\* Run called by another goroutine while isRunning is set: m.mutex.Lock(),
\* then `if m.isRunning { return errors.New(...) }`; the deferred function is
\* not yet registered and nothing unlocks (the mutex stays with this call)
RunAgain ==
    /\ mutex = "free"
    /\ isRunning
    /\ mutex' = "again"
    /\ UNCHANGED <<writeEnabled, isRunning, requestsChan, knownNodes, address2node,
                   callPc, runPc, enabled, buffer, lastWrite, cancelled>>

NextRunAgain ==
    \/ \E c \in Callers : ToggleWrite(c) /\ MapperOnly
    \/ \E c \in Callers : BroadcastIsoAddressClaimRequest(c) /\ MapperOnly
    \/ \E c \in Callers : CompleteSend(c) /\ MapperOnly
    \/ \E c \in Callers, raw \in RunClaims : Process(c, raw) /\ MapperOnly
    \/ RunStart /\ MapperOnly
    \/ \E c \in Callers : RunToggle(c) /\ MapperOnly
    \/ RunRequest /\ MapperOnly
    \/ RunWrite /\ MapperOnly
    \/ RunDone /\ MapperOnly
    \/ RunDeferred /\ MapperOnly
    \/ Cancel /\ MapperOnly
    \/ RunAgain /\ MapperOnly

SpecRunAgain == Init /\ [][NextRunAgain]_vars

\* C33: a call of Run while the mapper is already running returns its error
\* with the mutex released
C33_SecondRunReleasesMutex == mutex # "again"

\* the first Run is cancelled and waits in its deferred function for the mutex
\* that the returned second call still holds
ShutdownBlockedBySecondRun == mutex = "again" /\ runPc = "deferred"

\* after the second call has returned nobody gets the mutex any more and the
\* mapper stays marked as running
SecondRunKeepsMutex ==
    [][mutex = "again" => (mutex' = "again" /\ isRunning' /\ callPc' = callPc)]_vars


(***************************************************************************)
(* Messages that follow one another under one (source, PGN, tag)           *)
(***************************************************************************)
\* a transmitter starts a payload under a key no other one is using at the
\* moment: the tag has come round again, or the message before was given up
StartUnderKey(s, key, length) ==
    /\ ~tx[s].active
    /\ \A o \in Senders : tx[o].active => <<tx[o].src, tx[o].tag>> # key
    /\ tx' = [tx EXCEPT ![s] =
                [active |-> TRUE, src |-> key[1], tag |-> key[2], len |-> length,
                 sent |-> {}, n |-> 0, timely |-> TRUE, yields |-> 0,
                 clean |-> \A i \in 1..Len(inTransfer) : ~HasKey(inTransfer[i], key[1], key[2])]]
    /\ NextRead
    /\ UNCHANGED <<inTransfer, pool, now>>

NextReuse ==
    \/ \E s \in Senders, length \in {3, 12} : StartUnderKey(s, <<35, 0>>, length) /\ FpOnly
    \/ \E s \in Senders, k \in 0..31, got \in PoolGet(pool) : DeliverFrame(s, k, got) /\ FpOnly
    \/ \E s \in Senders : EndMessage(s) /\ FpOnly
    \/ \E t \in Instants : Tick(t) /\ FpOnly

SpecReuse == Init /\ [][NextReuse]_vars

\* every byte of data is a payload byte of transmitter s
BytesOf(data, s) == \A i \in 1..Len(data) : data[i] \div 64 = s

\* C34: every payload yielded for a fast-packet sequence consists solely of
\* bytes of the frames of one transmitted message, the one whose frame
\* completed it: no byte of an earlier incomplete message under the same
\* (source, PGN, tag) is in it
C34_YieldedPayloadIsOfOneMessage ==
    \A s \in Senders :
        ret = [value |-> "true", by |-> s] => BytesOf(msg.Data, s)

\* a payload yielded with bytes of both transmitters in it
YieldedMixedPayload ==
    /\ ret.value = "true"
    /\ \E i, j \in 1..Len(msg.Data) : msg.Data[i] \div 64 = 1 /\ msg.Data[j] \div 64 = 2

\* a message that met no sequence of its key in the list when it started is
\* yielded with its own payload
YieldedPayloadIsOwnWhenKeyClean ==
    \A s \in Senders :
        (tx[s].active /\ tx[s].clean /\ ret = [value |-> "true", by |-> s]) =>
            msg.Data = Payload(s, tx[s].len)


(***************************************************************************)
(* The packets of writeBstMessage read back by the binary reader           *)
(***************************************************************************)
\* the bodies handed to writeBstMessage: the command of Initialize, and the
\* buffers of WriteRawMessage for messages with every value of one data byte
\* (every checksum occurs among them)
InitializeBody == <<cmdDeviceMessageSend, 3, 17, 2, 0>>

PacketBodies ==
    {InitializeBody} \cup
    {BstBuffer([Header |-> Header(PGNISORequest, 6, AddressNull, AddressGlobal),
                Data |-> <<x, 7>>], isN2KWriter) :
        x \in 0..255, isN2KWriter \in BOOLEAN}

\* the device echoes the packet of one body to a reader that starts a call
PacketInit ==
    \E body \in PacketBodies :
        /\ stream = BstPacket(body)
        /\ rd = NewCall
        /\ results = <<>>
        /\ calc = [body |-> body, frames |-> <<>>]

\* one turn of the loop of ReadRawMessage; frames is the history of the
\* messages that DLE ETX ended: msg := message[0:messageByteIndex]
ReadPacketByte ==
    /\ ReadByte
    /\ calc' = IF rd.state = "processingEscapeSequence" /\ Head(stream) = ETX
               THEN [calc EXCEPT !.frames =
                        Append(@, [i \in 1..rd.messageByteIndex |-> At(rd.message, i - 1)])]
               ELSE calc

PacketOnly == UNCHANGED <<fpVars, canVars, mapperVars, gatewayVars, processed,
                          timer, sc, cli, ascii>>

InitPacket ==
    /\ FpInit /\ CanIdle /\ MapperInit /\ GatewayIdle /\ ProcessIdle
    /\ timer = NoTimer /\ sc = Nil /\ cli = Nil /\ ascii = Nil
    /\ PacketInit

NextPacket == ReadPacketByte /\ PacketOnly

SpecPacket == InitPacket /\ [][NextPacket]_vars

\* C35: the packet writeBstMessage emits for a body is read by the state
\* machine of the binary reader as exactly one frame, whose unstuffed bytes
\* are the body followed by its checksum byte
C35_PacketReadsBackAsOneFrame ==
    stream = <<>> => calc.frames = <<Append(calc.body, Checksum(calc.body))>>

\* the same for the bodies whose checksum byte is not DLE
PacketReadsBackUnlessChecksumIsDLE ==
    (stream = <<>> /\ Checksum(calc.body) # DLE) =>
        calc.frames = <<Append(calc.body, Checksum(calc.body))>>

\* the packet of a body with checksum DLE is read to its end without a
\* frame: the reader is still inside the message, the ETX stored as data
ChecksumDLESwallowsETX ==
    /\ stream = <<>>
    /\ Checksum(calc.body) = DLE
    /\ calc.frames = <<>>
    /\ rd.state = "readingMessageData"
    /\ rd.messageByteIndex = Len(calc.body) + 2

\* a body with a DLE among its bytes is read back as one frame
StuffedBodyReadBack ==
    /\ stream = <<>>
    /\ \E i \in 1..Len(calc.body) : calc.body[i] = DLE
    /\ calc.frames = <<Append(calc.body, Checksum(calc.body))>>


(***************************************************************************)
(* The binary reader on frames that are too short or too long              *)
(***************************************************************************)
\* every frame cut off after its first n bytes, for the three formats
CutFrames ==
    UNION {{Framed(SubSeq(Append(body, Checksum(body)), 1, n)) : n \in 0..(Len(body) + 1)} :
              body \in Bodies}

\* an N2K frame of 8 bytes whose length field agrees with its size
ShortN2kRaw == <<cmdN2KMessageReceived, 7, 0, AddressGlobal, 35, 1, 248, 8>>

\* a RAW frame of 8 bytes with a right length byte and a right checksum: the
\* counter, the CAN identifier and no data
ShortRawBody == <<cmdRAWActisenseMessageReceived, 5, 62, 183, 0, 1, 248>>

\* a frame with one byte more than the message buffer holds
LongFrame == <<DLE, STX>> \o [i \in 1..(ISOTPDataMaxSize + 1) |-> 7]

FramesInit ==
    /\ stream \in CutFrames \cup {Framed(ShortN2kRaw),
                                  Framed(Append(ShortRawBody, Checksum(ShortRawBody))),
                                  LongFrame}
    /\ rd = NewCall
    /\ results = <<>>

InitFrames == FpInit /\ CanIdle /\ MapperInit /\ FramesInit /\ GatewayIdle /\ ProcessIdle /\ ExtraIdle

SpecFrames == InitFrames /\ [][NextReader]_vars

\* C36: ReadRawMessage never indexes outside its message buffer nor outside
\* the bytes of the received frame: no call ends in an index or slice bounds
\* panic (over-long and too short frames give errors or are skipped)
C36_ReaderStaysInRange ==
    \A i \in 1..Len(results) : results[i] # Panic

\* a frame too short for the length test of its format is reported as error
ShortFrameReported == results = <<Failure>> /\ stream = <<>>


(***************************************************************************)
(* Every value of the length byte of frame 0                               *)
(***************************************************************************)
\* a transmitter starts a message whose frame 0 declares the given length
DeclareLength(s, length) ==
    /\ ~tx[s].active
    /\ inTransfer = <<>>
    /\ tx' = [tx EXCEPT ![s] =
                [active |-> TRUE, src |-> 35, tag |-> 0, len |-> length,
                 sent |-> {}, n |-> 0, timely |-> TRUE, yields |-> 0, clean |-> TRUE]]
    /\ NextRead
    /\ UNCHANGED <<inTransfer, pool, now>>

\* the reader delivers the next frame of the message to Assemble, frame 0
\* first, until the call returns true or does not return
DeliverNext(s, got) ==
    /\ tx[s].active
    /\ tx[s].n <= 31
    /\ ret.value \in {"none", "false"}
    /\ got \in PoolGet(pool)
    /\ LET k == tx[s].n
           f == FrameOf(s, now, k)
           r == Assemble(inTransfer, pool, f, FreshMessage, now, got)
       IN  /\ inTransfer' = r.inTransfer
           /\ pool' = r.pool
           /\ msg' = r.msg
           /\ ret' = [value |-> r.ret, by |-> s]
           /\ tx' = [tx EXCEPT ![s].sent = @ \cup {k},
                               ![s].n = @ + 1,
                               ![s].yields = IF r.ret = "true" THEN @ + 1 ELSE @]
    /\ UNCHANGED now

\* the message was yielded: the transmitter is done with it
EndYielded(s) ==
    /\ ret.value = "true"
    /\ EndMessage(s)

NextLength ==
    \/ \E s \in Solo, length \in 0..255 : DeclareLength(s, length) /\ FpOnly
    \/ \E s \in Solo, got \in PoolGet(pool) : DeliverNext(s, got) /\ FpOnly
    \/ \E s \in Solo : EndYielded(s) /\ FpOnly

SpecLength == Init /\ [][NextLength]_vars

\* the indexes of the sequence buffers written so far are within the array
AppendStaysInBuffer ==
    \A i \in 1..Len(inTransfer) :
        DOMAIN inTransfer[i].data \subseteq 0..(FastRawPacketMaxSize - 1)

\* C37: for every value of the length byte of frame 0, appending frames and
\* copying out the completed sequence stay within the 223 byte buffer of the
\* sequence
C37_DeclaredLengthStaysInBuffer ==
    /\ AppendStaysInBuffer
    /\ ret.value # "panic"

\* copying out goes beyond the buffer only for declared lengths above 223,
\* and no message of such a length is yielded
CopyOutPanicsAboveBufferSize ==
    \A s \in Solo :
        tx[s].active =>
            /\ ret.value = "panic" => tx[s].len > FastRawPacketMaxSize
            /\ (ret.value = "true" /\ ret.by = s) => tx[s].len <= FastRawPacketMaxSize

\* a sequence of 32 frames with a declared length above 223 is complete and
\* its copy goes beyond the buffer
LongSequencePanics ==
    ret.value = "panic" /\ tx[1].n = 32 /\ tx[1].len = 224

\* the longest message the buffer holds is yielded
LongestMessageYielded ==
    /\ ret = [value |-> "true", by |-> 1]
    /\ tx[1].len = FastRawPacketMaxSize
    /\ Len(msg.Data) = FastRawPacketMaxSize


(***************************************************************************)
(* Actisense RAW ASCII: lines read from the device                         *)
(***************************************************************************)
\* const rawASCIIDelimiter = ' '
rawASCIIDelimiter == 32

\* buf := make([]byte, 50) of ReadRawFrame
RawBufSize == 50

\* readBuffer: make([]byte, 100) of NewRawASCIIDevice
RawReadBufferSize == 100

\* the characters \n, \r and R
LF == 10

CR == 13

CharR == 82

\* bytes.IndexByte(s, c), counted from 0; -1 when c is not in s
IndexByte(s, c) ==
    IF \E i \in 1..Len(s) : s[i] = c
    THEN (CHOOSE i \in 1..Len(s) : s[i] = c /\ \A j \in 1..(i - 1) : s[j] # c) - 1
    ELSE -1

\* fromHexChar of encoding/hex: the value of a hexadecimal digit, -1 for
\* every other byte
fromHexChar(c) ==
    IF c \in 48..57 THEN c - 48
    ELSE IF c \in 65..70 THEN c - 55
    ELSE IF c \in 97..102 THEN c - 87
    ELSE -1

\* hex.Decode(dst, src): the bytes decoded, or an error for a byte that is
\* no digit and for an odd length
RECURSIVE hexDecode(_)
hexDecode(src) ==
    IF Len(src) = 0 THEN [ok |-> TRUE, bytes |-> <<>>]
    ELSE IF Len(src) = 1 THEN [ok |-> FALSE, bytes |-> <<>>]
    ELSE IF fromHexChar(src[1]) = -1 \/ fromHexChar(src[2]) = -1
    THEN [ok |-> FALSE, bytes |-> <<>>]
    ELSE LET rest == hexDecode(SubSeq(src, 3, Len(src)))
         IN  [ok |-> rest.ok,
              bytes |-> <<fromHexChar(src[1]) * 16 + fromHexChar(src[2])>> \o rest.bytes]

\* decodeHexToInt(raw, &CanID, 4): the four bytes, big endian, as they are
\* (the identifiers of the model have bit 31 clear)
decodeHexToInt(raw, dstLength) ==
    LET half == (Len(raw) + 1) \div 2
        start == dstLength * 2 - Len(raw)
        padded == IF half = dstLength THEN raw
                  ELSE [i \in 1..start |-> 48] \o raw
        dec == hexDecode(padded)
    IN  IF half # dstLength /\ start < 0 THEN Panic
        ELSE IF ~dec.ok THEN Failure
        ELSE [kind |-> "int",
              value |-> ((dec.bytes[1] * 256 + dec.bytes[2]) * 256 + dec.bytes[3]) * 256
                            + dec.bytes[4]]

Skip == [kind |-> "skip"]

Min(S) == CHOOSE x \in S : \A y \in S : x <= y

\* parseRawASCII: a frame, Skip, an error, or a run-time panic
parseRawASCII(raw, t) ==
    LET spaces == {i \in 1..Len(raw) : raw[i] = rawASCIIDelimiter}
        s1 == Min(spaces)
        s2 == Min(spaces \ {s1})
        s3 == Min(spaces \ {s1, s2})
        id == decodeHexToInt(SubSeq(raw, s2 + 1, s3 - 1), 4)
        ends == {i \in s3..Len(raw) : raw[i] \in {CR, LF}}
        stop == IF ends = {} THEN Len(raw) + 1 ELSE Min(ends)
        hexChars == SelectSeq(SubSeq(raw, s3, stop - 1), LAMBDA b : b # rawASCIIDelimiter)
        \* hexBytes := make([]byte, 16): what the line did not fill stays 0
        hexBytes == [i \in 1..16 |-> IF i <= Len(hexChars) THEN hexChars[i] ELSE 0]
        dec == hexDecode(hexBytes)
    IN  IF Cardinality(spaces) < 3 THEN Skip
        ELSE IF raw[s2 - 1] # CharR THEN Skip
        ELSE IF id.kind # "int" THEN id
        ELSE IF Len(hexChars) > 16 THEN Panic
        ELSE IF ~dec.ok THEN Failure
        ELSE [kind |-> "frame", Time |-> t, Header |-> ParseCANID(id.value),
              Length |-> Len(dec.bytes),
              Data |-> [i \in 1..8 |-> IF i <= Len(dec.bytes) THEN dec.bytes[i] ELSE 0]]

\* NewRawASCIIDevice, and the bytes the device is going to deliver (held is
\* history: a Read has left the end of a line in the buffer)
NewRawASCIIDevice(input) ==
    [dev |-> "raw", pc |-> "reading", input |-> input, readBuffer |-> <<>>,
     readIndex |-> 0, results |-> <<>>, held |-> FALSE]

Trunc(s, n) == IF Len(s) > n THEN SubSeq(s, 1, n) ELSE s

\* one turn of the loop of RawASCIIDevice.ReadRawFrame with a Read of n bytes;
\* when the call returns the caller makes the next call. readBuffer is kept
\* as the bytes below readIndex that the buffer holds.
RawReadTurn(n) ==
    /\ ascii.dev = "raw"
    /\ ascii.pc = "reading"
    /\ n \in 1..RawBufSize
    /\ n <= Len(ascii.input)
    /\ LET buf == SubSeq(ascii.input, 1, n)
           read == [ascii EXCEPT !.input = SubSeq(ascii.input, n + 1, Len(ascii.input))]
           endIndex == IndexByte(buf, LF) + 1
           frame == ascii.readBuffer \o SubSeq(buf, 1, endIndex)
           parsed == parseRawASCII(frame, now)
           panic == [read EXCEPT !.pc = "panic", !.results = Append(@, Panic)]
       IN  ascii' =
             IF ascii.readIndex > RawReadBufferSize THEN panic
             ELSE IF endIndex = 0
             THEN [read EXCEPT !.readBuffer = Trunc(@ \o buf, RawReadBufferSize),
                               !.readIndex = @ + n]
             ELSE IF ascii.readIndex + endIndex > RawReadBufferSize THEN panic
             ELSE IF parsed = Panic THEN panic
             ELSE [read EXCEPT !.readBuffer = SubSeq(buf, endIndex + 1, n),
                               !.readIndex = n - endIndex,
                               !.results = IF parsed = Skip THEN @ ELSE Append(@, parsed),
                               !.held = @ \/ IndexByte(SubSeq(buf, endIndex + 1, n), LF) # -1]

\* the line `00:34:02.718 R 15FD0800 0k 0k 0k 0k 0k 0k 0k 0k\r\n` of the device
RawLine(k) ==
    <<48, 48, 58, 51, 52, 58, 48, 50, 46, 55, 49, 56, 32, CharR, 32,
      49, 53, 70, 68, 48, 56, 48, 48>>
    \o [i \in 1..24 |-> IF i % 3 = 1 THEN 32 ELSE IF i % 3 = 2 THEN 48 ELSE 48 + k]
    \o <<CR, LF>>

\* the frame that line carries: CAN identifier 0x15FD0800
RawLineFrame(k, t) ==
    [kind |-> "frame", Time |-> t, Header |-> ParseCANID(368904192), Length |-> 8,
     Data |-> [i \in 1..8 |-> k]]

\* the device delivers this many received lines one after the other
MaxLines == 4

RECURSIVE RawLines(_)
RawLines(n) == IF n = 0 THEN <<>> ELSE RawLines(n - 1) \o RawLine(n)

RawAsciiInit == ascii = NewRawASCIIDevice(RawLines(MaxLines))

AsciiOnly == UNCHANGED <<fpVars, canVars, mapperVars, readerVars, gatewayVars, processed,
                         timer, calc, sc, cli>>

InitRawAscii ==
    /\ FpInit /\ CanIdle /\ MapperInit /\ ReaderIdle /\ GatewayIdle /\ ProcessIdle
    /\ timer = NoTimer /\ calc = Nil /\ sc = Nil /\ cli = Nil
    /\ RawAsciiInit

NextRawAscii == \E n \in 1..RawBufSize : RawReadTurn(n) /\ AsciiOnly

SpecRawAscii == InitRawAscii /\ [][NextRawAscii]_vars

\* C38: every well-formed received line of the input is returned by
\* ReadRawFrame exactly once and in input order, however the Read calls split
\* or batch the bytes: what the calls have returned so far are the frames of
\* the first lines of the input, one each, in their order
C38_LinesReturnedOnceInOrder ==
    /\ Len(ascii.results) <= MaxLines
    /\ \A i \in 1..Len(ascii.results) : ascii.results[i] = RawLineFrame(i, now)

\* the same as long as no Read has delivered the ends of two lines at once
LinesReturnedInOrderUnlessBatched ==
    ~ascii.held => C38_LinesReturnedOnceInOrder

\* the frame of a line was returned although the line before it never was
LineLost ==
    \E i \in 1..Len(ascii.results) : \E k \in (i + 1)..MaxLines :
        ascii.results[i] = RawLineFrame(k, now)

\* all lines were returned, each split over several Read calls
AllLinesReturned ==
    /\ ascii.input = <<>>
    /\ ascii.results = [i \in 1..MaxLines |-> RawLineFrame(i, now)]


(***************************************************************************)
(* What the device receives from the Write calls of writeBstMessage        *)
(***************************************************************************)
\* WriteRawMessage up to the loop of writeBstMessage, with the packet and
\* the bytes the device has accepted so far (partial is history: a Write was
\* accepted in part)
WriteRawMessageTo(m, isN2KWriter) ==
    /\ WriteRawMessage(m, isN2KWriter)
    /\ calc' = [packet |-> BstPacket(BstBuffer(m, isN2KWriter)), device |-> <<>>,
                partial |-> FALSE]

\* one turn of the loop: d.device.Write(packet) is called with the whole
\* packet every time, and the device accepts its first o.n bytes
WriteTurnTo(o) ==
    /\ WriteTurn(o)
    /\ calc' = [calc EXCEPT !.device = @ \o SubSeq(calc.packet, 1, o.n),
                            !.partial = @ \/ (o.n > 0 /\ o.n < Len(calc.packet))]

DeviceOnly == UNCHANGED <<fpVars, canVars, mapperVars, readerVars, processed,
                          timer, sc, cli, ascii>>

NextDevice ==
    \/ \E m \in WriteMessages, isN2KWriter \in BOOLEAN :
          WriteRawMessageTo(m, isN2KWriter) /\ DeviceOnly
    \/ \E n \in 0..32, e \in {"nil", "EAGAIN", "EIO"} :
          WriteTurnTo([n |-> n, err |-> e]) /\ DeviceOnly

SpecDevice == Init /\ [][NextDevice]_vars

\* writeBstMessage has returned without error
WrittenWithoutError == wr.pc = "returned" /\ wr.err = "nil"

\* C39: when writeBstMessage returns without error the device has received
\* the bytes of the packet exactly once and in order, also after partial
\* writes and writes that failed with EAGAIN
C39_DeviceReceivedPacketOnce ==
    WrittenWithoutError => calc.device = calc.packet

\* the same when no Write call accepted a part of the packet only: calls that
\* failed with EAGAIN without a byte, then one call that took the packet
PacketOnceWhenNoPartialWrite ==
    (WrittenWithoutError /\ ~calc.partial) => calc.device = calc.packet

\* a partial write followed by a write of the whole packet: the device has
\* the start of the packet twice
PacketStartReceivedTwice ==
    /\ WrittenWithoutError
    /\ \E n \in 1..(Len(calc.packet) - 1) :
          calc.device = SubSeq(calc.packet, 1, n) \o calc.packet

\* writes that failed with EAGAIN, then the packet in one write
PacketReceivedAfterEagain ==
    /\ WrittenWithoutError
    /\ wr.retryCount > 0
    /\ calc.device = calc.packet


(***************************************************************************)
(* Actisense N2K ASCII, and lines that are empty or too long               *)
(***************************************************************************)
\* buf := make([]byte, nmea.FastRawPacketMaxSize+100) of ReadRawMessage
N2kBufSize == FastRawPacketMaxSize + 100

\* readBuffer: make([]byte, nmea.ISOTPDataMaxSize*2) of NewN2kASCIIDevice
N2kReadBufferSize == ISOTPDataMaxSize * 2

\* the character A
CharA == 65

\* parseN2KAscii up to the decoding of the fields: a panic for raw[0] of an
\* empty line, Skip for a line that does not start with A or is shorter
\* than 22 bytes; the fields of any other line are decoded from raw alone,
\* which is kept as it is
parseN2KAscii(raw, t) ==
    IF Len(raw) = 0 THEN Panic
    ELSE IF raw[1] # CharA THEN Skip
    ELSE IF Len(raw) < 22 THEN Skip
    ELSE [kind |-> "line", Time |-> t, raw |-> raw]

\* NewN2kASCIIDevice, and the bytes the device is going to deliver
NewN2kASCIIDevice(input) ==
    [dev |-> "n2k", pc |-> "reading", input |-> input, readBuffer |-> <<>>,
     readIndex |-> 0, results |-> <<>>, held |-> FALSE]

\* one turn of the loop of N2kASCIIDevice.ReadRawMessage with a Read of n
\* bytes; the \n is not part of the message
N2kReadTurn(n) ==
    /\ ascii.dev = "n2k"
    /\ ascii.pc = "reading"
    /\ n \in 1..N2kBufSize
    /\ n <= Len(ascii.input)
    /\ LET buf == SubSeq(ascii.input, 1, n)
           read == [ascii EXCEPT !.input = SubSeq(ascii.input, n + 1, Len(ascii.input))]
           messageEndIndex == IndexByte(buf, LF)
           message == ascii.readBuffer \o SubSeq(buf, 1, messageEndIndex)
           parsed == parseN2KAscii(message, now)
           panic == [read EXCEPT !.pc = "panic", !.results = Append(@, Panic)]
       IN  ascii' =
             IF ascii.readIndex > N2kReadBufferSize THEN panic
             ELSE IF messageEndIndex = -1
             THEN [read EXCEPT !.readBuffer = Trunc(@ \o buf, N2kReadBufferSize),
                               !.readIndex = @ + n]
             ELSE IF ascii.readIndex + messageEndIndex > N2kReadBufferSize THEN panic
             ELSE IF parsed = Panic THEN panic
             ELSE [read EXCEPT !.readBuffer = SubSeq(buf, messageEndIndex + 2, n),
                               !.readIndex = n - (messageEndIndex + 1),
                               !.results = IF parsed = Skip THEN @ ELSE Append(@, parsed),
                               !.held = @ \/ IndexByte(SubSeq(buf, messageEndIndex + 2, n), LF) # -1]

\* the line `A173321.107 23FF7 1F513 012F3070002F30709F\r\n` of the device
N2kLine ==
    <<CharA, 49, 55, 51, 51, 50, 49, 46, 49, 48, 55, 32, 50, 51, 70, 70, 55, 32,
      49, 70, 53, 49, 51, 32,
      48, 49, 50, 70, 51, 48, 55, 48, 48, 48, 50, 70, 51, 48, 55, 48, 57, 70, CR, LF>>

\* this many bytes beyond the read buffer arrive without the end of a line
MaxOverrun == 60

\* a line that does not end within the read buffer of the RAW ASCII reader
LongLine == [i \in 1..(RawReadBufferSize + MaxOverrun) |-> 55] \o <<CR, LF>>

\* the inputs of the RAW ASCII reader: empty lines before a line, a line
\* that is too long before a line
RawInputs ==
    {<<LF>> \o RawLine(1), <<CR, LF>> \o RawLine(1), <<LF, LF>> \o RawLine(1),
     LongLine \o RawLine(1)}

\* the inputs of the N2K ASCII reader: a line, an empty line with and
\* without \r before a line
N2kInputs == {N2kLine \o N2kLine, <<CR, LF>> \o N2kLine, <<LF>> \o N2kLine}

LinesInit ==
    ascii \in {NewRawASCIIDevice(i) : i \in RawInputs}
                \cup {NewN2kASCIIDevice(i) : i \in N2kInputs}

InitLines ==
    /\ FpInit /\ CanIdle /\ MapperInit /\ ReaderIdle /\ GatewayIdle /\ ProcessIdle
    /\ timer = NoTimer /\ calc = Nil /\ sc = Nil /\ cli = Nil
    /\ LinesInit

NextLines ==
    \/ \E n \in 1..RawBufSize : RawReadTurn(n) /\ AsciiOnly
    \/ \E n \in 1..N2kBufSize : N2kReadTurn(n) /\ AsciiOnly

SpecLines == InitLines /\ [][NextLines]_vars

ReadBufferSize == IF ascii.dev = "raw" THEN RawReadBufferSize ELSE N2kReadBufferSize

\* C40: the RAW ASCII and the N2K ASCII line readers keep readIndex within
\* their read buffer and never index into an empty line: no Read ends in a
\* run-time panic, lines that are too long or empty are skipped or reported
C40_LineReadersStayInRange ==
    /\ ascii.readIndex <= ReadBufferSize
    /\ ascii.pc # "panic"

\* the RAW ASCII reader skips empty lines: when it has taken its whole input
\* and holds nothing back, it has returned the line after them and no more
RawEmptyLinesAreSkipped ==
    (ascii.dev = "raw" /\ ascii.pc = "reading" /\ ascii.input = <<>> /\ ascii.readIndex = 0)
        => ascii.results = <<RawLineFrame(1, now)>>

\* the line after two empty lines was returned
RawLineAfterEmptyLinesReturned ==
    /\ ascii.dev = "raw"
    /\ ascii.input = <<>>
    /\ ascii.results = <<RawLineFrame(1, now)>>

\* readIndex of the RAW ASCII reader beyond its buffer of 100 bytes
RawIndexBeyondBuffer ==
    ascii.dev = "raw" /\ ascii.pc = "reading" /\ ascii.readIndex > RawReadBufferSize

\* the RAW ASCII reader slices its buffer at a readIndex beyond it
RawSlicePanics == ascii.dev = "raw" /\ ascii.pc = "panic"

\* the N2K ASCII reader indexes the empty line
N2kEmptyLinePanics ==
    /\ ascii.dev = "n2k"
    /\ ascii.pc = "panic"
    /\ ascii.input = N2kLine

\* the N2K ASCII reader returns both lines
N2kLinesReturned ==
    /\ ascii.dev = "n2k"
    /\ ascii.input = <<>>
    /\ Len(ascii.results) = 2

====
